---------------------------- MODULE Spec2Model ----------------------------
(***************************************************************************)
(* Model of prostat-bridge/forecast_engine.py: the heat-pump performance   *)
(* curves, the hourly simulator, the weather series builder and the        *)
(* monthly forecast.                                                       *)
(*                                                                         *)
(* Python floats are modelled as fixed-point integers.  Units:             *)
(*   temperatures            tenths of a degree F       (47 F    = 470)    *)
(*   capacity factor         1/10000                    (0.64    = 6400)   *)
(*   unscaled base COP       1/100000                   (4.8     = 480000) *)
(*   scaled / effective COP  1/1000                     (0.5     = 500)    *)
(*   defrost penalty         1/100000000                (1.0     = 10^8)   *)
(*   humidity                percent                                      *)
(*   tons, hspf2, dt_hours   tenths                     (3.0     = 30)     *)
(*   heat flows              BTU/hr                                        *)
(*   energies                hundredths of a kWh        (1.13    = 113)    *)
(*   the system clock        readings 0, 1, 2, ... in increasing order     *)
(* Quotients are taken with \div (floor), the fixed-point counterpart of   *)
(* the rounding of a float division.                                       *)
(***************************************************************************)
EXTENDS Integers, Sequences, FiniteSets, TLC

VARIABLES call, pc, frame, ret, fetch, now, history

vars == <<call, pc, frame, ret, fetch, now, history>>

Max(a, b) == IF a >= b THEN a ELSE b
Min(a, b) == IF a <= b THEN a ELSE b

(***************************************************************************)
(* Module constants, forecast_engine.py lines 16-17.                       *)
(***************************************************************************)
\* 3412.14 BTU per kWh, in hundredths of a BTU
BTU_PER_KWH == 341214
BTU_PER_TON == 12000
\* default of the cutoff_temp parameters: -15 F, in tenths of a degree
DEFAULT_CUTOFF == -150

(***************************************************************************)
(* get_capacity_factor, lines 20-29.                                       *)
(***************************************************************************)
\* line 27-28: the branch for cutoff < t < 17
capacity_branch_low(temp_out) == Max(0, 6400 - (170 - temp_out) * 10)

\* line 29: the branch for 17 <= t < 47
capacity_branch_mid(temp_out) == 10000 - (470 - temp_out) * 12

\* lines 20-29 without the cap of lines 24-25
get_capacity_factor_uncapped(temp_out, cutoff_temp) ==
    IF temp_out <= cutoff_temp THEN 0
    ELSE IF temp_out < 170 THEN capacity_branch_low(temp_out)
    ELSE capacity_branch_mid(temp_out)

\* lines 20-29 with the test of lines 24-25 ahead of the test of lines 22-23
get_capacity_factor_cap_first(temp_out, cutoff_temp) ==
    IF temp_out >= 470 THEN 10000
    ELSE IF temp_out <= cutoff_temp THEN 0
    ELSE IF temp_out < 170 THEN capacity_branch_low(temp_out)
    ELSE capacity_branch_mid(temp_out)

get_capacity_factor(temp_out, cutoff_temp) ==
    IF temp_out <= cutoff_temp THEN 0
    ELSE IF temp_out >= 470 THEN 10000
    ELSE IF temp_out < 170 THEN capacity_branch_low(temp_out)
    ELSE capacity_branch_mid(temp_out)

(***************************************************************************)
(* get_base_cop_unscaled, lines 32-39.                                     *)
(***************************************************************************)
\* line 37: the branch for 17 <= t < 47
cop_branch_mid(temp_out) == 480000 - (470 - temp_out) * 867

\* lines 38-39: the branch for t < 17
cop_branch_low(temp_out) == Max(120000, 220000 - (170 - temp_out) * 200)

\* lines 32-39 without the plateau of lines 34-35
get_base_cop_no_plateau(temp_out) ==
    IF temp_out >= 170 THEN cop_branch_mid(temp_out)
    ELSE cop_branch_low(temp_out)

get_base_cop_unscaled(temp_out) ==
    IF temp_out >= 470 THEN 480000
    ELSE IF temp_out >= 170 THEN cop_branch_mid(temp_out)
    ELSE cop_branch_low(temp_out)

\* lines 32-39 with the temperature in hundredths of a degree and the result
\* in 1/1000000: the slopes 0.0867 and 0.02 per degree are 867 and 200 per
\* hundredth of a degree
get_base_cop_unscaled_fine(temp_out) ==
    IF temp_out >= 4700 THEN 4800000
    ELSE IF temp_out >= 1700 THEN 4800000 - (4700 - temp_out) * 867
    ELSE Max(1200000, 2200000 - (1700 - temp_out) * 200)

(***************************************************************************)
(* HSPF2_BIN_HOURS, lines 42-46: (temperature in whole degrees, hours).    *)
(***************************************************************************)
HSPF2_BIN_HOURS ==
    << <<62, 87>>, <<57, 183>>, <<52, 294>>, <<47, 358>>, <<42, 415>>,
       <<37, 460>>, <<33, 430>>, <<28, 407>>, <<23, 311>>, <<18, 239>>,
       <<13, 152>>, <<8, 91>>, <<3, 47>>, <<-2, 20>>, <<-7, 8>>, <<-13, 3>> >>

RECURSIVE weighted_sum(_)
\* line 52 over the first n bins: sum(get_base_cop_unscaled(t) * h)
weighted_sum(n) ==
    IF n = 0 THEN 0
    ELSE get_base_cop_unscaled(HSPF2_BIN_HOURS[n][1] * 10) * HSPF2_BIN_HOURS[n][2]
         + weighted_sum(n - 1)

RECURSIVE hours_sum(_)
\* line 53 over the first n bins: sum(h)
hours_sum(n) ==
    IF n = 0 THEN 0 ELSE HSPF2_BIN_HOURS[n][2] + hours_sum(n - 1)

\* line 52
total_weighted == weighted_sum(Len(HSPF2_BIN_HOURS))

\* line 53
total_hours == hours_sum(Len(HSPF2_BIN_HOURS))

\* line 54, in 1/100000
base_seasonal_cop == total_weighted \div total_hours

\* line 55, in 1/1000
target_seasonal_cop(hspf2) == (hspf2 * 10000000) \div BTU_PER_KWH

\* line 56 without its division by base_seasonal_cop
cop_scale_to_target(hspf2) == target_seasonal_cop(hspf2)

\* line 56, in 1/1000
cop_scale(hspf2) == (target_seasonal_cop(hspf2) * 100000) \div base_seasonal_cop

\* lines 49-57, in 1/1000
get_cop_factor(temp_out, hspf2) ==
    (get_base_cop_unscaled(temp_out) * cop_scale(hspf2)) \div 100000

(***************************************************************************)
(* get_defrost_penalty, lines 60-80.  rh is in 1/100, temp_mult in         *)
(* 1/10000, base_penalty in 1/100, the penalty in 1/100000000.             *)
(***************************************************************************)
\* lines 63-75
defrost_temp_mult(outdoor_temp) ==
    IF 360 <= outdoor_temp /\ outdoor_temp <= 400 THEN 10000
    ELSE IF 400 < outdoor_temp /\ outdoor_temp <= 450
        THEN 10000 - (outdoor_temp - 400) * 100
    ELSE IF 320 <= outdoor_temp /\ outdoor_temp < 360
        THEN 10000 - (360 - outdoor_temp) * 25
    ELSE IF 200 <= outdoor_temp /\ outdoor_temp < 320
        THEN 9000 - (320 - outdoor_temp) * 25
    ELSE IF outdoor_temp < 200
        THEN Max(2000, 6000 - ((200 - outdoor_temp) * 4000) \div 300)
    ELSE IF outdoor_temp <= 500
        THEN 5000 - (outdoor_temp - 450) * 80
    ELSE 1000

\* line 76
defrost_base_penalty(outdoor_temp, rh) ==
    IF 360 <= outdoor_temp /\ outdoor_temp <= 400 /\ rh >= 90 THEN 20
    ELSE IF 360 <= outdoor_temp /\ outdoor_temp <= 400 /\ rh >= 80 THEN 18
    ELSE 15

\* lines 60-80 returning 1 + penalty without the clamp of line 80
get_defrost_penalty_unclamped(outdoor_temp, humidity) ==
    LET rh == humidity
        temp_mult == defrost_temp_mult(outdoor_temp)
        penalty0 == defrost_base_penalty(outdoor_temp, rh) * rh * temp_mult
        penalty == IF rh >= 95 /\ 320 <= outdoor_temp /\ outdoor_temp <= 420
                   THEN penalty0 + (rh - 95) * 10 * temp_mult
                   ELSE penalty0
    IN 100000000 + penalty

get_defrost_penalty(outdoor_temp, humidity) ==
    LET rh == humidity
        temp_mult == defrost_temp_mult(outdoor_temp)
        penalty0 == defrost_base_penalty(outdoor_temp, rh) * rh * temp_mult
        penalty == IF rh >= 95 /\ 320 <= outdoor_temp /\ outdoor_temp <= 420
                   THEN penalty0 + (rh - 95) * 10 * temp_mult
                   ELSE penalty0
    IN Max(100000000, Min(200000000, 100000000 + penalty))

(***************************************************************************)
(* compute_hourly_performance, lines 83-107.                               *)
(***************************************************************************)
\* lines 95-97
building_loss_btu_hr(design_heat_loss_btu, indoor_temp, outdoor_temp) ==
    LET temp_diff == Max(0, indoor_temp - outdoor_temp)
    IN IF design_heat_loss_btu > 0
       THEN (design_heat_loss_btu * temp_diff) \div 700
       ELSE 0

\* line 99 without its capacity_factor: the rated capacity at every temperature
available_capacity_rated(tons, capacity_factor) == tons * (BTU_PER_TON \div 10)

\* line 99
available_capacity_btu_hr(tons, capacity_factor) ==
    (tons * (BTU_PER_TON \div 10) * capacity_factor) \div 10000

\* line 102
effective_cop(cop, defrost) == Max(500, (cop * 10000) \div (defrost \div 10000))

\* line 103 with its min(building_loss_btu_hr, ...) dropped
delivered_hp_unclamped(building_loss, available_capacity) ==
    IF available_capacity > 0 THEN available_capacity ELSE 0

\* line 103
delivered_hp_btu_hr(building_loss, available_capacity) ==
    IF available_capacity > 0 THEN Min(building_loss, available_capacity) ELSE 0

\* line 104
deficit_btu_hr(building_loss, delivered) == Max(0, building_loss - delivered)

\* line 105
hp_kwh_of(delivered, dt_hours, eff_cop) ==
    IF delivered > 0
    THEN (((delivered * 1000) \div eff_cop) * dt_hours * 1000) \div BTU_PER_KWH
    ELSE 0

\* line 106
aux_kwh_of(deficit, dt_hours) == (deficit * dt_hours * 1000) \div BTU_PER_KWH

\* lines 83-107 with hp_kwh capped at what the compressor draws in dt_hours
hourly_locals_power_capped(tons, indoor_temp, design_heat_loss_btu, compressor_power, hspf2, outdoor_temp, humidity, dt_hours, cutoff_temp) ==
    LET loss == building_loss_btu_hr(design_heat_loss_btu, indoor_temp, outdoor_temp)
        cf == get_capacity_factor(outdoor_temp, cutoff_temp)
        avail == available_capacity_btu_hr(tons, cf)
        cop == get_cop_factor(outdoor_temp, hspf2)
        defrost == get_defrost_penalty(outdoor_temp, humidity)
        eff == effective_cop(cop, defrost)
        delivered == delivered_hp_btu_hr(loss, avail)
        deficit == deficit_btu_hr(loss, delivered)
    IN [outdoor_temp |-> outdoor_temp,
        dt_hours |-> dt_hours,
        cutoff_temp |-> cutoff_temp,
        building_loss_btu_hr |-> loss,
        capacity_factor |-> cf,
        available_capacity_btu_hr |-> avail,
        cop |-> cop,
        defrost |-> defrost,
        effective_cop |-> eff,
        delivered_hp_btu_hr |-> delivered,
        deficit_btu_hr |-> deficit,
        hp_kwh |-> Min(hp_kwh_of(delivered, dt_hours, eff), Max(0, compressor_power * dt_hours)),
        aux_kwh |-> aux_kwh_of(deficit, dt_hours)]

\* The locals of compute_hourly_performance at its return statement.
hourly_locals(tons, indoor_temp, design_heat_loss_btu, compressor_power, hspf2, outdoor_temp, humidity, dt_hours, cutoff_temp) ==
    LET loss == building_loss_btu_hr(design_heat_loss_btu, indoor_temp, outdoor_temp)
        cf == get_capacity_factor(outdoor_temp, cutoff_temp)
        avail == available_capacity_btu_hr(tons, cf)
        cop == get_cop_factor(outdoor_temp, hspf2)
        defrost == get_defrost_penalty(outdoor_temp, humidity)
        eff == effective_cop(cop, defrost)
        delivered == delivered_hp_btu_hr(loss, avail)
        deficit == deficit_btu_hr(loss, delivered)
    IN [outdoor_temp |-> outdoor_temp,
        dt_hours |-> dt_hours,
        cutoff_temp |-> cutoff_temp,
        building_loss_btu_hr |-> loss,
        capacity_factor |-> cf,
        available_capacity_btu_hr |-> avail,
        cop |-> cop,
        defrost |-> defrost,
        effective_cop |-> eff,
        delivered_hp_btu_hr |-> delivered,
        deficit_btu_hr |-> deficit,
        hp_kwh |-> hp_kwh_of(delivered, dt_hours, eff),
        aux_kwh |-> aux_kwh_of(deficit, dt_hours)]

(***************************************************************************)
(* get_hourly_temp, lines 124-128.  math.cos at the multiples of pi/12     *)
(* that line 126 produces, in 1/10000.                                     *)
(***************************************************************************)
CosTable == <<10000, 9659, 8660, 7071, 5000, 2588, 0>>

\* cos(k * pi / 12) for any integer k
cos_pi12(k) ==
    LET a == k % 24
        b == IF a > 12 THEN 24 - a ELSE a
    IN IF b <= 6 THEN CosTable[b + 1] ELSE -CosTable[12 - b + 1]

get_hourly_temp(low, high, avg, hour) ==
    LET phase12 == hour - 6
        temp_offset == (cos_pi12(phase12 - 12) * (high - low)) \div 20000
    IN avg + temp_offset

(***************************************************************************)
(* calculate_heat_loss, lines 110-121.  square_feet in sq ft, the          *)
(* multipliers in 1/100, ceiling_height in tenths of a foot; the result is *)
(* in BTU/hr.                                                              *)
(***************************************************************************)
\* Python's round(n / d) for d > 0: nearest, ties to even
py_round(n, d) ==
    LET q == n \div d
        r == n % d
    IN IF 2 * r < d THEN q
       ELSE IF 2 * r > d THEN q + 1
       ELSE IF q % 2 = 0 THEN q ELSE q + 1

\* lines 110-121 with the sign of the ceiling term of line 118 reversed
calculate_heat_loss_low_ceiling(square_feet, insulation_level, home_shape, ceiling_height, has_loft) ==
    LET ceiling_mult == 100 - (ceiling_height - 80)
        effective_sqft == IF has_loft /\ 120 <= home_shape /\ home_shape < 130
                          THEN (square_feet * 65) \div 100
                          ELSE square_feet
        by_insulation == (effective_sqft * 2267 * insulation_level) \div 100
        by_shape == (by_insulation * home_shape) \div 100
        raw == (by_shape * ceiling_mult) \div 100
    IN py_round(raw, 100000) * 1000

calculate_heat_loss(square_feet, insulation_level, home_shape, ceiling_height, has_loft) ==
    LET ceiling_mult == 100 + (ceiling_height - 80)
        effective_sqft == IF has_loft /\ 120 <= home_shape /\ home_shape < 130
                          THEN (square_feet * 65) \div 100
                          ELSE square_feet
        by_insulation == (effective_sqft * 2267 * insulation_level) \div 100
        by_shape == (by_insulation * home_shape) \div 100
        raw == (by_shape * ceiling_mult) \div 100
    IN py_round(raw, 100000) * 1000

(***************************************************************************)
(* Python values held by the settings dict, and the operators lines        *)
(* 247-275 apply to them: dict.get, `or`, bool() and float().              *)
(*   kind "missing"  the key is absent (dict.get gives None)               *)
(*        "none"     None                                                  *)
(*        "num"      an int or float, val in the field's unit              *)
(*        "numstr"   a string holding the number val                       *)
(*        "badstr"   a non-empty string that is no number                  *)
(*        "list"     a list of val elements                                *)
(*        "bool"     False (val 0) or True (val 1)                         *)
(***************************************************************************)
PyMissing == [kind |-> "missing", val |-> 0]
PyNone == [kind |-> "none", val |-> 0]
PyNum(n) == [kind |-> "num", val |-> n]
PyNumStr(n) == [kind |-> "numstr", val |-> n]
PyBadStr == [kind |-> "badstr", val |-> 0]
PyList(n) == [kind |-> "list", val |-> n]
PyBool(b) == [kind |-> "bool", val |-> IF b THEN 1 ELSE 0]

\* bool(v)
Truthy(v) ==
    CASE v.kind \in {"missing", "none"} -> FALSE
      [] v.kind \in {"num", "list", "bool"} -> v.val # 0
      [] v.kind \in {"numstr", "badstr"} -> TRUE

\* a if a is not None else b if b is not None else default
PyOrNotNone(a, b, default) ==
    IF a.kind \notin {"missing", "none"} THEN a
    ELSE IF b.kind \notin {"missing", "none"} THEN b
    ELSE default

\* a or b or default
PyOr(a, b, default) == IF Truthy(a) THEN a ELSE IF Truthy(b) THEN b ELSE default

\* float(v); one is 1.0 in the unit of the field
PyFloat(v, one) ==
    CASE v.kind \in {"num", "numstr"} -> [exc |-> "none", val |-> v.val]
      [] v.kind = "bool" -> [exc |-> "none", val |-> v.val * one]
      [] v.kind = "badstr" -> [exc |-> "ValueError", val |-> 0]
      [] v.kind \in {"missing", "none", "list"} -> [exc |-> "TypeError", val |-> 0]

SettingsKeys ==
    {"squareFeet", "square_feet", "insulationLevel", "insulation_level",
     "homeShape", "home_shape", "ceilingHeight", "ceiling_height",
     "hasLoft", "has_loft",
     "winterThermostatDay", "winter_thermostat_day",
     "winterThermostatNight", "winter_thermostat_night",
     "utilityCost", "utility_cost", "fixedElectricCost", "fixed_electric_cost",
     "learnedBaseloadKwhPerDay", "baseloadKwhPerDay",
     "manualHeatLoss", "manual_heat_loss", "analyzerHeatLoss", "analyzer_heat_loss",
     "useElectricAuxHeat", "use_electric_aux_heat",
     "useManualHeatLoss", "use_manual_heat_loss",
     "useAnalyzerHeatLoss", "use_analyzer_heat_loss",
     "heatPumpTons", "heat_pump_tons", "efficiency", "hspf2"}

\* The numeric settings in the order lines 247-275 convert them:
\* <<first key, second key, default, 1.0 in the field's unit>>.
\* Units: sq ft; 1/100; 1/100; tenths of a foot; tenths of a degree (twice);
\* 1/1000 $ per kWh; cents; tenths of a kWh per day; BTU/hr/F (twice);
\* tenths of a ton; tenths.
NumericSettings ==
    << <<"squareFeet", "square_feet", 1500, 1>>,
       <<"insulationLevel", "insulation_level", 100, 100>>,
       <<"homeShape", "home_shape", 100, 100>>,
       <<"ceilingHeight", "ceiling_height", 80, 10>>,
       <<"winterThermostatDay", "winter_thermostat_day", 700, 10>>,
       <<"winterThermostatNight", "winter_thermostat_night", 680, 10>>,
       <<"utilityCost", "utility_cost", 100, 1000>>,
       <<"fixedElectricCost", "fixed_electric_cost", 0, 100>>,
       <<"learnedBaseloadKwhPerDay", "baseloadKwhPerDay", 100, 10>>,
       <<"manualHeatLoss", "manual_heat_loss", 0, 1>>,
       <<"analyzerHeatLoss", "analyzer_heat_loss", 0, 1>>,
       <<"heatPumpTons", "heat_pump_tons", 20, 10>>,
       <<"efficiency", "hspf2", 90, 10>> >>

\* float(settings.get(k1) or settings.get(k2) or default) for the i-th numeric setting
numeric_setting(settings, i) ==
    LET f == NumericSettings[i]
    IN PyFloat(PyOr(settings[f[1]], settings[f[2]], PyNum(f[3])), f[4])

\* line 261
use_aux_of(settings) ==
    Truthy(PyOr(settings["useElectricAuxHeat"], settings["use_electric_aux_heat"], PyBool(TRUE)))

\* lines 264-271 with the analyzer branch tested ahead of the manual branch
design_heat_loss_analyzer_first(settings, square_feet, insulation, home_shape, ceiling_height, has_loft, manual_hl, analyzer_hl) ==
    LET use_manual == PyOr(settings["useManualHeatLoss"], settings["use_manual_heat_loss"], PyNone)
        use_analyzer == PyOr(settings["useAnalyzerHeatLoss"], settings["use_analyzer_heat_loss"], PyNone)
    IN IF Truthy(use_analyzer) /\ analyzer_hl > 0 THEN analyzer_hl * 70
       ELSE IF Truthy(use_manual) /\ manual_hl > 0 THEN manual_hl * 70
       ELSE calculate_heat_loss(square_feet, insulation, home_shape, ceiling_height, has_loft)

\* lines 264-271
design_heat_loss_of(settings, square_feet, insulation, home_shape, ceiling_height, has_loft, manual_hl, analyzer_hl) ==
    LET use_manual == PyOr(settings["useManualHeatLoss"], settings["use_manual_heat_loss"], PyNone)
        use_analyzer == PyOr(settings["useAnalyzerHeatLoss"], settings["use_analyzer_heat_loss"], PyNone)
    IN IF Truthy(use_manual) /\ manual_hl > 0 THEN manual_hl * 70
       ELSE IF Truthy(use_analyzer) /\ analyzer_hl > 0 THEN analyzer_hl * 70
       ELSE calculate_heat_loss(square_feet, insulation, home_shape, ceiling_height, has_loft)

\* a / b truncated toward floor, for b of either sign
FloorDiv(a, b) == IF b > 0 THEN a \div b ELSE (-a) \div (-b)

\* line 276, in tenths
compressor_power_of(tons, efficiency) ==
    IF efficiency # 0 THEN FloorDiv(tons * 150, efficiency) ELSE (tons * 167) \div 100

\* line 279 taking the setpoint in force at the clock reading: day, or night
indoor_temp_at_clock(winter_day, winter_night) ==
    IF now % 2 = 0 THEN winter_day ELSE winter_night

\* line 279, in tenths of a degree
indoor_temp_of(winter_day, winter_night) == (winter_day * 16 + winter_night * 8) \div 24

\* Lines 247-279: the locals of compute_monthly_forecast when the loop is
\* entered, or the exception the first failing float() raises.
resolve_settings(settings) ==
    LET n == Len(NumericSettings)
        v(i) == numeric_setting(settings, i)
        bad == {i \in 1..n : v(i).exc # "none"}
    IN IF bad # {}
       THEN [exc |-> v(CHOOSE i \in bad : \A j \in bad : i <= j).exc]
       ELSE LET square_feet == v(1).val
                insulation == v(2).val
                home_shape == v(3).val
                ceiling_height == v(4).val
                has_loft == Truthy(PyOr(settings["hasLoft"], settings["has_loft"], PyBool(FALSE)))
                winter_day == v(5).val
                winter_night == v(6).val
                baseload == Max(50, Min(250, v(9).val))
                manual_hl == v(10).val
                analyzer_hl == v(11).val
                tons == v(12).val
                efficiency == v(13).val
            IN [exc |-> "none",
                utility_cost |-> v(7).val,
                fixed_cost |-> v(8).val,
                baseload_kwh_per_day |-> baseload,
                use_aux |-> use_aux_of(settings),
                design_heat_loss |->
                    design_heat_loss_of(settings, square_feet, insulation, home_shape, ceiling_height, has_loft, manual_hl, analyzer_hl),
                tons |-> tons,
                efficiency |-> efficiency,
                compressor_power |-> compressor_power_of(tons, efficiency),
                indoor_temp |-> indoor_temp_of(winter_day, winter_night),
                winter_night |-> winter_night]

(***************************************************************************)
(* fetch_weather_async, lines 133-139 and 214-234: the length of the       *)
(* target month and the month built from the merged day map.               *)
(***************************************************************************)
IsLeap(y) == y % 4 = 0 /\ (y % 100 # 0 \/ y % 400 = 0)

MonthLengths == <<31, 28, 31, 30, 31, 30, 31, 31, 30, 31, 30, 31>>

RECURSIVE DaysBeforeMonth(_, _)
\* datetime: the days of year y that precede month m
DaysBeforeMonth(y, m) ==
    IF m = 1 THEN 0
    ELSE DaysBeforeMonth(y, m - 1) + MonthLengths[m - 1]
         + (IF m - 1 = 2 /\ IsLeap(y) THEN 1 ELSE 0)

\* datetime: date(y, m, d).toordinal()
Ordinal(y, m, d) ==
    LET p == y - 1
    IN p * 365 + p \div 4 - p \div 100 + p \div 400 + DaysBeforeMonth(y, m) + d

\* lines 136-139 from a table of month lengths that knows no leap year
days_in_month_no_leap(target_year, target_month) == MonthLengths[target_month]

\* lines 136-139
days_in_month_of(target_year, target_month) ==
    IF target_month = 12 THEN 31
    ELSE Ordinal(target_year, target_month + 1, 1) - Ordinal(target_year, target_month, 1)

\* lines 227-233
fallback_day(day) == [day |-> day, high |-> 500, low |-> 400, avg |-> 450, humidity |-> 60]

\* lines 215-234; forecast_map is a function from the days it holds to their entries
build_month(forecast_map, days_in_month) ==
    [day \in 1..days_in_month |->
        IF day \in DOMAIN forecast_map
        THEN [day |-> day,
              high |-> forecast_map[day].high,
              low |-> forecast_map[day].low,
              avg |-> forecast_map[day].avg,
              humidity |-> forecast_map[day].humidity]
        ELSE fallback_day(day)]

\* the empty dict
EmptyMap == [d \in {} |-> 0]

(***************************************************************************)
(* Dates and JSON values.  A date, and the "YYYY-MM-DD" string of it, is   *)
(* <<year, month, day>>; an hourly time string "YYYY-MM-DDTHH:MM" is       *)
(* <<date, hour>>.  A JSON number or null is [null, v].                    *)
(***************************************************************************)
MonthLen(y, m) == MonthLengths[m] + (IF m = 2 /\ IsLeap(y) THEN 1 ELSE 0)

\* datetime.strptime(dt_str, "%Y-%m-%d") succeeds
ValidDate(dt) == dt[2] \in 1..12 /\ dt[3] >= 1 /\ dt[3] <= MonthLen(dt[1], dt[2])

NextDay(dt) ==
    IF dt[3] < MonthLen(dt[1], dt[2]) THEN <<dt[1], dt[2], dt[3] + 1>>
    ELSE IF dt[2] < 12 THEN <<dt[1], dt[2] + 1, 1>>
    ELSE <<dt[1] + 1, 1, 1>>

PrevDay(dt) ==
    IF dt[3] > 1 THEN <<dt[1], dt[2], dt[3] - 1>>
    ELSE IF dt[2] > 1 THEN <<dt[1], dt[2] - 1, MonthLen(dt[1], dt[2] - 1)>>
    ELSE <<dt[1] - 1, 12, 31>>

RECURSIVE DatesFrom(_, _)
\* the n consecutive dates that start at dt
DatesFrom(dt, n) == IF n = 0 THEN <<>> ELSE <<dt>> \o DatesFrom(NextDay(dt), n - 1)

JNull == [null |-> TRUE, v |-> 0]
JNum(n) == [null |-> FALSE, v |-> n]

(***************************************************************************)
(* fetch_weather_async, lines 154-181: the forecast payload is read.       *)
(* A payload is [time, high, low, hourly_time, hourly_rh]; a missing key   *)
(* is the empty list its .get default gives.                               *)
(***************************************************************************)
RECURSIVE day_vals(_, _, _)
\* lines 163-168: the non-null humidities of the first n hourly entries of the day
day_vals(payload, dt_str, n) ==
    IF n = 0 THEN <<>>
    ELSE LET rest == day_vals(payload, dt_str, n - 1)
             v == IF n <= Len(payload.hourly_rh) THEN payload.hourly_rh[n] ELSE JNum(60)
         IN IF payload.hourly_time[n][1] = dt_str /\ ~v.null THEN Append(rest, v.v) ELSE rest

RECURSIVE SeqSum(_)
SeqSum(q) == IF q = <<>> THEN 0 ELSE Head(q) + SeqSum(Tail(q))

\* line 169
humidity_by_day(payload, dt_str) ==
    LET vals == day_vals(payload, dt_str, Len(payload.hourly_time))
    IN IF vals # <<>> THEN SeqSum(vals) \div Len(vals) ELSE 60

\* lines 176 and 205 as dict.setdefault: an entry the dict holds is kept
MapSetDefault(map, key, value) ==
    [k \in DOMAIN map \cup {key} |-> IF k \in DOMAIN map THEN map[k] ELSE value]

\* a dict with one more entry
MapPut(map, key, value) == [k \in DOMAIN map \cup {key} |-> IF k = key THEN value ELSE map[k]]

RECURSIVE forecast_loop(_, _, _, _)
\* lines 171-181 over the first n entries of daily_time:
\* [exc, map], exc the exception that ended the loop or "none"
forecast_loop(payload, target_month, target_year, n) ==
    IF n = 0 THEN [exc |-> "none", map |-> EmptyMap]
    ELSE LET before == forecast_loop(payload, target_month, target_year, n - 1)
             dt_str == payload.time[n]
         IN IF before.exc # "none" THEN before
            ELSE IF ~(n <= Len(payload.high) /\ n <= Len(payload.low)) THEN before
            ELSE IF ~ValidDate(dt_str) THEN [exc |-> "ValueError", map |-> before.map]
            ELSE IF ~(dt_str[2] = target_month /\ dt_str[1] = target_year) THEN before
            ELSE IF payload.high[n].null \/ payload.low[n].null
                 THEN [exc |-> "TypeError", map |-> before.map]
            ELSE [exc |-> "none",
                  map |-> MapPut(before.map, dt_str[3],
                                 [high |-> payload.high[n].v,
                                  low |-> payload.low[n].v,
                                  avg |-> (payload.high[n].v + payload.low[n].v) \div 2,
                                  humidity |-> humidity_by_day(payload, dt_str)])]

parse_forecast(payload, target_month, target_year) ==
    forecast_loop(payload, target_month, target_year, Len(payload.time))

(***************************************************************************)
(* fetch_weather_async, lines 198-210: the archive payload is merged.      *)
(* A payload is [time, has_max, max, has_min, min].                        *)
(***************************************************************************)
RECURSIVE archive_loop(_, _, _, _)
\* lines 199-210 over the first n entries of the archive's time list, from the
\* day map the forecast left: [exc, map]
archive_loop(archive, target_month, forecast_map, n) ==
    IF n = 0 THEN [exc |-> "none", map |-> forecast_map]
    ELSE LET before == archive_loop(archive, target_month, forecast_map, n - 1)
             dt_str == archive.time[n]
         IN IF before.exc # "none" THEN before
            ELSE IF ~ValidDate(dt_str) THEN [exc |-> "ValueError", map |-> before.map]
            ELSE IF dt_str[2] # target_month THEN before
            ELSE IF ~archive.has_max THEN [exc |-> "KeyError", map |-> before.map]
            ELSE IF n > Len(archive.max) THEN [exc |-> "IndexError", map |-> before.map]
            ELSE IF ~archive.has_min THEN [exc |-> "KeyError", map |-> before.map]
            ELSE IF n > Len(archive.min) THEN [exc |-> "IndexError", map |-> before.map]
            ELSE IF archive.max[n].null \/ archive.min[n].null THEN before
            ELSE [exc |-> "none",
                  map |-> MapPut(before.map, dt_str[3],
                                 [high |-> archive.max[n].v,
                                  low |-> archive.min[n].v,
                                  avg |-> (archive.max[n].v + archive.min[n].v) \div 2,
                                  humidity |-> 60])]

merge_archive(archive, target_month, forecast_map) ==
    archive_loop(archive, target_month, forecast_map, Len(archive.time))

\* lines 184-185 with is_current comparing the month alone
archive_wanted_any_year(today, target_month, target_year) ==
    target_month = today[2] /\ today[3] > 1

\* lines 184-185
archive_wanted(today, target_month, target_year) ==
    LET is_current == target_month = today[2] /\ target_year = today[1]
    IN is_current /\ today[3] > 1

\* lines 150-151: what the status check of the forecast response raises
forecast_status_unchecked(ok) == "none"

forecast_status_check(ok) == IF ok THEN "none" ELSE "RuntimeError"

\* line 211 with a narrower clause, except aiohttp.ClientError
caught_client_error_only(exc) == exc = "ClientError"

\* line 211: except Exception catches whatever lines 196-210 raise
caught_by_except(exc) ==
    exc \in {"ClientError", "JSONError", "ValueError", "KeyError", "IndexError", "TypeError"}

(***************************************************************************)
(* Inputs of the engine's functions.                                       *)
(***************************************************************************)
\* outdoor temperatures run from -MinTempF to MaxTempF degrees
MinTempF == 25
MaxTempF == 75

\* whole degrees, and a tenth of a degree to either side of the breakpoints
TempGrid ==
    {10 * d : d \in -MinTempF..MaxTempF}
    \cup {b + e : b \in {DEFAULT_CUTOFF, 170, 470}, e \in {-1, 1}}

CapacityCalls ==
    [fn : {"get_capacity_factor"}, temp_out : TempGrid, cutoff_temp : {DEFAULT_CUTOFF, 0, 500}]

BaseCopCalls == [fn : {"get_base_cop_unscaled"}, temp_out : TempGrid]

\* hundredths of a degree to either side of the breakpoints of lines 34-39
FineSpan == 5

FineTempGrid == {b + e : b \in {1700, 4700}, e \in -FineSpan..FineSpan}

BaseCopFineCalls == [fn : {"get_base_cop_unscaled_fine"}, temp_out : FineTempGrid]

CopFactorCalls == [fn : {"get_cop_factor"}, temp_out : TempGrid, hspf2 : {-90, 0, 75, 90, 130}]

\* humidities inside 0..100 and outside it
HumidityGrid == {-50, 0, 60, 85, 92, 97, 100, 150, 600, 2000}

DefrostCalls == [fn : {"get_defrost_penalty"}, outdoor_temp : TempGrid, humidity : HumidityGrid]

HeatLossSquareFeet == {-1000, 0, 1000, 1500, 2000}

HeatLossInsulation == {-50, 0, 50, 100, 150}

HeatLossCalls ==
    [fn : {"calculate_heat_loss"},
     square_feet : HeatLossSquareFeet,
     insulation_level : HeatLossInsulation,
     home_shape : {-100, 0, 100, 125},
     ceiling_height : {-30, 80, 100, 190},
     has_loft : BOOLEAN]

\* <<low, high, avg>> of a day
DayShapes == {<<400, 500, 450>>, <<-50, 250, 100>>, <<300, 301, 300>>, <<200, 200, 200>>, <<500, 400, 450>>}

HourlyTempCalls ==
    {[fn |-> "get_hourly_temp", low |-> s[1], high |-> s[2], avg |-> s[3], hour |-> h] : s \in DayShapes, h \in 0..23}

\* in tenths of a kW
CompressorPowers == {0, 50}

HourlyPerformanceCalls ==
    [fn : {"compute_hourly_performance"},
     tons : {-10, 0, 1, 30},
     indoor_temp : {693},
     design_heat_loss_btu : {-1000, 0, 40000},
     compressor_power : CompressorPowers,
     hspf2 : {-90, 0, 90},
     outdoor_temp : TempGrid,
     humidity : {0, 60, 100},
     dt_hours : {0, 10},
     cutoff_temp : {DEFAULT_CUTOFF}]

\* a WeatherDay
WDay(day, low, high, avg, humidity) == [day |-> day, high |-> high, low |-> low, avg |-> avg, humidity |-> humidity]

ShortSeries ==
    { <<>>,
      <<WDay(1, -200, -160, -180, 70)>>,
      <<fallback_day(1)>>,
      <<WDay(1, 150, 350, 250, 96)>>,
      <<WDay(1, -100, 100, 0, 0), WDay(2, 300, 700, 500, 100)>> }

\* the months fetch_weather_async returns when no source supplies a day
FallbackMonths == {build_month(EmptyMap, days_in_month_of(2026, m)) : m \in {2, 12}}

DefaultSettings == [k \in SettingsKeys |-> PyMissing]

\* another value for each numeric setting, in NumericSettings order
AltValues == <<2200, 65, 125, 100, 720, 600, 150, 1500, 300, 500, 400, 30, 100>>

SettingValues(i) ==
    {PyNone, PyNum(0), PyNum(AltValues[i]), PyNum(-AltValues[i]), PyNumStr(AltValues[i]),
     PyNumStr(0), PyBadStr, PyList(0), PyList(1), PyBool(TRUE), PyBool(FALSE)}

\* one numeric setting stored under its first key, its second key, or both
NumericSettingInputs ==
    UNION {{[DefaultSettings EXCEPT ![NumericSettings[i][1]] = v] : v \in SettingValues(i)} : i \in 1..Len(NumericSettings)}
    \cup {[DefaultSettings EXCEPT ![NumericSettings[i][2]] = PyNum(AltValues[i])] : i \in 1..Len(NumericSettings)}
    \cup {[DefaultSettings EXCEPT ![NumericSettings[i][1]] = PyNum(0), ![NumericSettings[i][2]] = PyBadStr] : i \in 1..Len(NumericSettings)}

AuxSettingInputs ==
    {[DefaultSettings EXCEPT !["useElectricAuxHeat"] = a, !["use_electric_aux_heat"] = b] :
        a \in {PyMissing, PyNone, PyBool(TRUE), PyBool(FALSE)}, b \in {PyMissing, PyBool(TRUE), PyBool(FALSE)}}

HeatLossSettingInputs ==
    {[DefaultSettings EXCEPT !["useManualHeatLoss"] = um, !["manualHeatLoss"] = m,
                             !["useAnalyzerHeatLoss"] = ua, !["analyzerHeatLoss"] = a] :
        um \in {PyMissing, PyBool(TRUE), PyBool(FALSE)}, m \in {PyMissing, PyNum(500), PyNum(-5)},
        ua \in {PyMissing, PyBool(TRUE)}, a \in {PyMissing, PyNum(400), PyNum(-4)}}
    \cup {[DefaultSettings EXCEPT !["hasLoft"] = PyBool(TRUE), !["homeShape"] = PyNum(125)]}

SettingsInputs == NumericSettingInputs \cup AuxSettingInputs \cup HeatLossSettingInputs

ForecastCalls ==
    [fn : {"compute_monthly_forecast"}, weather_days : ShortSeries, settings : SettingsInputs, month : {11}, year : {2026}]
    \cup [fn : {"compute_monthly_forecast"}, weather_days : FallbackMonths, settings : AuxSettingInputs, month : {2}, year : {2026}]

(***************************************************************************)
(* The engine as a state machine: one invocation of one function.          *)
(*   call   the function and its arguments                                 *)
(*   pc     "called", "loop" (inside lines 284-308), "returned", "raised"  *)
(*   frame  the locals of the invocation; in compute_monthly_forecast also *)
(*          hourly, the locals of the last compute_hourly_performance, and *)
(*          evaluations, the number of times line 293 has called it        *)
(*   ret    the value returned, or the exception raised                    *)
(*   now    the reading of the system clock, datetime.now() of line 333    *)
(*   history  <<call, ret>> of the invocations that have completed         *)
(***************************************************************************)
NoValue == <<>>

Init ==
    /\ \/ call \in CapacityCalls
       \/ call \in BaseCopCalls
       \/ call \in BaseCopFineCalls
       \/ call \in CopFactorCalls
       \/ call \in DefrostCalls
       \/ call \in HeatLossCalls
       \/ call \in HourlyTempCalls
       \/ call \in HourlyPerformanceCalls
       \/ call \in ForecastCalls
    /\ pc = "called"
    /\ frame = NoValue
    /\ ret = NoValue
    /\ fetch = <<>>
    /\ now = 0
    /\ history = <<>>

Call_get_capacity_factor ==
    /\ pc = "called"
    /\ call.fn = "get_capacity_factor"
    /\ ret' = get_capacity_factor(call.temp_out, call.cutoff_temp)
    /\ pc' = "returned"
    /\ UNCHANGED <<call, frame, fetch, now, history>>

Call_get_base_cop_unscaled ==
    /\ pc = "called"
    /\ call.fn = "get_base_cop_unscaled"
    /\ ret' = get_base_cop_unscaled(call.temp_out)
    /\ pc' = "returned"
    /\ UNCHANGED <<call, frame, fetch, now, history>>

Call_get_base_cop_unscaled_fine ==
    /\ pc = "called"
    /\ call.fn = "get_base_cop_unscaled_fine"
    /\ ret' = get_base_cop_unscaled_fine(call.temp_out)
    /\ pc' = "returned"
    /\ UNCHANGED <<call, frame, fetch, now, history>>

Call_get_cop_factor ==
    /\ pc = "called"
    /\ call.fn = "get_cop_factor"
    /\ ret' = get_cop_factor(call.temp_out, call.hspf2)
    /\ pc' = "returned"
    /\ UNCHANGED <<call, frame, fetch, now, history>>

Call_get_defrost_penalty ==
    /\ pc = "called"
    /\ call.fn = "get_defrost_penalty"
    /\ ret' = get_defrost_penalty(call.outdoor_temp, call.humidity)
    /\ pc' = "returned"
    /\ UNCHANGED <<call, frame, fetch, now, history>>

Call_calculate_heat_loss ==
    /\ pc = "called"
    /\ call.fn = "calculate_heat_loss"
    /\ ret' = calculate_heat_loss(call.square_feet, call.insulation_level, call.home_shape, call.ceiling_height, call.has_loft)
    /\ pc' = "returned"
    /\ UNCHANGED <<call, frame, fetch, now, history>>

Call_get_hourly_temp ==
    /\ pc = "called"
    /\ call.fn = "get_hourly_temp"
    /\ ret' = get_hourly_temp(call.low, call.high, call.avg, call.hour)
    /\ pc' = "returned"
    /\ UNCHANGED <<call, frame, fetch, now, history>>

Call_compute_hourly_performance ==
    /\ pc = "called"
    /\ call.fn = "compute_hourly_performance"
    /\ frame' = hourly_locals(call.tons, call.indoor_temp, call.design_heat_loss_btu, call.compressor_power, call.hspf2, call.outdoor_temp, call.humidity, call.dt_hours, call.cutoff_temp)
    /\ ret' = <<frame'.hp_kwh, frame'.aux_kwh>>
    /\ pc' = "returned"
    /\ UNCHANGED <<call, fetch, now, history>>

(***************************************************************************)
(* compute_monthly_forecast, lines 237-342.                                *)
(***************************************************************************)
\* lines 303-306: <<day_energy, day_aux>> after one hour
accumulate_hour(use_aux, day_energy, day_aux, hp_kwh, aux_kwh) ==
    IF use_aux
    THEN <<day_energy + hp_kwh + aux_kwh, day_aux + aux_kwh>>
    ELSE <<day_energy + hp_kwh, day_aux>>

\* lines 331-332 dividing by 4 weeks instead of 4.33
weekly_equivalent_of_4_weeks(total_with_fees) == py_round(total_with_fees, 4000)

\* lines 331-332: round(total_with_fees / 4.33, 2), in cents
weekly_equivalent(total_with_fees) == py_round(total_with_fees, 4330)

\* line 340 without its subtraction of total_aux
hp_energy_with_aux(total_energy, total_aux) == total_energy

\* line 340: the argument of round(), in hundredths of a kWh
hp_energy_of(total_energy, total_aux) == total_energy - total_aux

\* lines 310-342; costs are summed in 1/100000 $ and reported in cents,
\* energies are reported in tenths of a kWh
forecast_result(s, days_in_month, total_energy, total_aux, month, timestamp) ==
    LET hvac_cost == total_energy * s.utility_cost
        baseload_cost == s.baseload_kwh_per_day * days_in_month * s.utility_cost * 10
        total_with_fees == hvac_cost + baseload_cost + s.fixed_cost * 1000
    IN [totalMonthlyCost |-> py_round(total_with_fees, 1000),
        variableCost |-> py_round(hvac_cost + baseload_cost, 1000),
        hvacCost |-> py_round(hvac_cost, 1000),
        baseloadCost |-> py_round(baseload_cost, 1000),
        fixedCost |-> s.fixed_cost,
        totalHPCost |-> weekly_equivalent(total_with_fees),
        totalHPCostWithAux |-> weekly_equivalent(total_with_fees),
        timestamp |-> timestamp,
        source |-> "bridge_forecast",
        month |-> month,
        targetTemp |-> s.indoor_temp,
        nightTemp |-> s.winter_night,
        mode |-> "heating",
        totalEnergyKwh |-> py_round(total_energy, 10),
        auxEnergyKwh |-> py_round(total_aux, 10),
        hpEnergyKwh |-> py_round(hp_energy_of(total_energy, total_aux), 10),
        electricityRate |-> s.utility_cost]

\* line 291 as range(12): the inner loop leaves the day after hour 11
more_hours_half_day(hour) == hour < 11

\* line 291, for hour in range(24): another hour of the day follows this one
more_hours_in_day(hour) == hour < 23

RECURSIVE day_totals(_, _, _, _)
\* lines 288-306: <<day_energy, day_aux>> when the hour loop leaves the day,
\* from the sums acc before the given hour
day_totals(s, wday, hour, acc) ==
    LET humidity == IF "humidity" \in DOMAIN wday THEN wday.humidity ELSE 60
        hourly_temp == get_hourly_temp(wday.low, wday.high, wday.avg, hour)
        h == hourly_locals(s.tons, s.indoor_temp, s.design_heat_loss, s.compressor_power, s.efficiency, hourly_temp, humidity, 10, DEFAULT_CUTOFF)
        after == accumulate_hour(s.use_aux, acc[1], acc[2], h.hp_kwh, h.aux_kwh)
    IN IF more_hours_in_day(hour) THEN day_totals(s, wday, hour + 1, after) ELSE after

RECURSIVE month_totals(_, _, _, _)
\* lines 284-308: <<total_energy, total_aux>> when the day loop ends, from the
\* totals before the given day
month_totals(s, weather_days, day, totals) ==
    IF day > Len(weather_days) THEN totals
    ELSE LET d == day_totals(s, weather_days[day], 0, <<0, 0>>)
         IN month_totals(s, weather_days, day + 1, <<totals[1] + d[1], totals[2] + d[2]>>)

\* lines 237-342 as a function of its arguments and of the clock reading of
\* line 333: what the invocation returns, or the exception it raises
compute_monthly_forecast(weather_days, settings, month, timestamp) ==
    LET s == resolve_settings(settings)
    IN IF s.exc # "none"
       THEN [outcome |-> "raised", ret |-> s.exc]
       ELSE LET totals == month_totals(s, weather_days, 1, <<0, 0>>)
            IN [outcome |-> "returned",
                ret |-> forecast_result(s, Len(weather_days), totals[1], totals[2], month, timestamp)]

\* lines 247-282: the settings are resolved, or a float() raises
ResolveSettings ==
    /\ pc = "called"
    /\ call.fn = "compute_monthly_forecast"
    /\ LET s == resolve_settings(call.settings)
       IN IF s.exc # "none"
          THEN /\ pc' = "raised"
               /\ ret' = s.exc
               /\ UNCHANGED frame
          ELSE /\ pc' = "loop"
               /\ frame' = [s |-> s, day |-> 1, hour |-> 0, day_energy |-> 0, day_aux |-> 0,
                            total_energy |-> 0, total_aux |-> 0, hourly |-> NoValue,
                            evaluations |-> 0]
               /\ UNCHANGED ret
    /\ UNCHANGED <<call, fetch, now, history>>

\* lines 284-308: one iteration of the hour loop, and after hour 23 the day's totals
SimulateHour ==
    /\ pc = "loop"
    /\ frame.day <= Len(call.weather_days)
    /\ LET s == frame.s
           wday == call.weather_days[frame.day]
           humidity == IF "humidity" \in DOMAIN wday THEN wday.humidity ELSE 60
           hourly_temp == get_hourly_temp(wday.low, wday.high, wday.avg, frame.hour)
           h == hourly_locals(s.tons, s.indoor_temp, s.design_heat_loss, s.compressor_power, s.efficiency, hourly_temp, humidity, 10, DEFAULT_CUTOFF)
           acc == accumulate_hour(s.use_aux, frame.day_energy, frame.day_aux, h.hp_kwh, h.aux_kwh)
       IN IF more_hours_in_day(frame.hour)
          THEN frame' = [frame EXCEPT !.hour = frame.hour + 1, !.day_energy = acc[1],
                                      !.day_aux = acc[2], !.hourly = h,
                                      !.evaluations = frame.evaluations + 1]
          ELSE frame' = [frame EXCEPT !.day = frame.day + 1, !.hour = 0,
                                      !.day_energy = 0, !.day_aux = 0,
                                      !.total_energy = frame.total_energy + acc[1],
                                      !.total_aux = frame.total_aux + acc[2],
                                      !.hourly = h,
                                      !.evaluations = frame.evaluations + 1]
    /\ UNCHANGED <<call, pc, ret, fetch, now, history>>

\* lines 310-342
ReturnForecast ==
    /\ pc = "loop"
    /\ frame.day > Len(call.weather_days)
    /\ ret' = forecast_result(frame.s, Len(call.weather_days), frame.total_energy, frame.total_aux, call.month, now)
    /\ pc' = "returned"
    /\ UNCHANGED <<call, frame, fetch, now, history>>

Next ==
    \/ Call_get_capacity_factor
    \/ Call_get_base_cop_unscaled
    \/ Call_get_base_cop_unscaled_fine
    \/ Call_get_cop_factor
    \/ Call_get_defrost_penalty
    \/ Call_calculate_heat_loss
    \/ Call_get_hourly_temp
    \/ Call_compute_hourly_performance
    \/ ResolveSettings
    \/ SimulateHour
    \/ ReturnForecast

Spec == Init /\ [][Next]_vars

(***************************************************************************)
(* compute_monthly_forecast on the series fetch_weather_async can return,  *)
(* scheduled fairly: the function is a plain def with no await, so once    *)
(* called it keeps taking steps until it returns or raises.                *)
(***************************************************************************)
\* series of 28 and 31 days, and shorter ones
LoopSeries ==
    {build_month(EmptyMap, days_in_month_of(2026, m)) : m \in {2, 12}}
    \cup {<<>>, <<WDay(1, -200, -160, -180, 70)>>}

LoopCalls ==
    [fn : {"compute_monthly_forecast"},
     weather_days : LoopSeries,
     settings : {DefaultSettings, [DefaultSettings EXCEPT !["heatPumpTons"] = PyBadStr]},
     month : {2},
     year : {2026}]

InitLoop ==
    /\ call \in LoopCalls
    /\ pc = "called"
    /\ frame = NoValue
    /\ ret = NoValue
    /\ fetch = <<>>
    /\ now = 0
    /\ history = <<>>

NextLoop ==
    \/ ResolveSettings
    \/ SimulateHour
    \/ ReturnForecast

SpecLoop == InitLoop /\ [][NextLoop]_vars /\ WF_vars(NextLoop)

(***************************************************************************)
(* compute_monthly_forecast invoked again and again while the system clock *)
(* advances.  history keeps <<call, outcome, ret>> of every invocation     *)
(* that has completed; the locals of an invocation are gone when the next  *)
(* one starts.                                                             *)
(***************************************************************************)
\* invocations recorded in history, and readings of the clock after the first
MaxCalls == 2
MaxClock == 2

RepeatedCalls ==
    [fn : {"compute_monthly_forecast"},
     weather_days : {<<WDay(1, 150, 350, 250, 96)>>},
     settings : {DefaultSettings,
                 [DefaultSettings EXCEPT !["squareFeet"] = PyNum(2200)],
                 [DefaultSettings EXCEPT !["squareFeet"] = PyBadStr]},
     month : {11},
     year : {2026}]

InitCalls ==
    /\ call \in RepeatedCalls
    /\ pc = "called"
    /\ frame = NoValue
    /\ ret = NoValue
    /\ fetch = <<>>
    /\ now = 0
    /\ history = <<>>

\* the system clock that datetime.now() of line 333 reads moves on
Tick ==
    /\ now < MaxClock
    /\ now' = now + 1
    /\ UNCHANGED <<call, pc, frame, ret, fetch, history>>

\* line 237: the caller, holding the outcome of the invocation that has
\* completed, invokes the function again
NextInvocation ==
    /\ pc \in {"returned", "raised"}
    /\ Len(history) < MaxCalls
    /\ history' = Append(history, [call |-> call, outcome |-> pc, ret |-> ret])
    /\ call' \in RepeatedCalls
    /\ pc' = "called"
    /\ frame' = NoValue
    /\ ret' = NoValue
    /\ UNCHANGED <<fetch, now>>

NextCalls ==
    \/ ResolveSettings
    \/ SimulateHour
    \/ ReturnForecast
    \/ Tick
    \/ NextInvocation

SpecCalls == InitCalls /\ [][NextCalls]_vars

(***************************************************************************)
(* Inputs of fetch_weather_async: the date of the call, the target month   *)
(* and what the two Open-Meteo endpoints answer.                           *)
(***************************************************************************)
\* the forecast response holds at most this many days
ForecastDays == 3

Todays == {<<2026, 11, 4>>, <<2026, 11, 1>>, <<2024, 2, 3>>, <<2026, 12, 31>>}

SweepYears == {2000, 2024, 2026, 2100}

\* <<year, month>> targets asked for on the day today
Targets(today) ==
    {<<today[1], today[2]>>, <<NextDay(<<today[1], today[2], MonthLen(today[1], today[2])>>)[1], NextDay(<<today[1], today[2], MonthLen(today[1], today[2])>>)[2]>>}
    \cup (SweepYears \X (1..12))

BadDate == <<2026, 13, 1>>

\* the forecast payload of n days from the date first, in one of its shapes
ForecastPayload(first, n, shape) ==
    LET dates == DatesFrom(first, n)
        time == IF shape = "bad_date" /\ n > 0 THEN [dates EXCEPT ![n] = BadDate] ELSE dates
        high == [i \in 1..n |-> IF shape = "null_high" /\ i = 1 THEN JNull ELSE JNum(450 + 20 * i)]
        low == [i \in 1..n |-> JNum(300 + 10 * i)]
        hourly_time == IF shape = "no_hourly" THEN <<>>
                       ELSE [j \in 1..(2 * n) |-> <<dates[(j + 1) \div 2], 12 * ((j + 1) % 2)>>]
        rh == [j \in 1..Len(hourly_time) |->
                  IF shape = "all_null_rh" \/ (shape = "null_rh" /\ j % 2 = 1) THEN JNull
                  ELSE JNum(IF j % 2 = 1 THEN 70 ELSE 90)]
    IN [time |-> time,
        high |-> IF shape = "short_high" /\ n > 0 THEN SubSeq(high, 1, n - 1) ELSE high,
        low |-> low,
        hourly_time |-> hourly_time,
        hourly_rh |-> IF shape = "short_rh" /\ n > 0 THEN SubSeq(rh, 1, 1) ELSE rh]

ForecastShapes ==
    {"plain", "bad_date", "null_high", "short_high", "no_hourly", "null_rh", "all_null_rh", "short_rh"}

ForecastPayloads(today) ==
    {ForecastPayload(first, n, shape) : first \in {today, PrevDay(today)}, n \in 0..ForecastDays, shape \in ForecastShapes}

\* kind "exception": session.get raises; otherwise the response, its ok flag,
\* whether resp.json() succeeds, and the payload it gives
ForecastResponses(today) ==
    {[kind |-> "exception", ok |-> FALSE, json_ok |-> FALSE, payload |-> ForecastPayload(today, 0, "plain")]}
    \cup {[kind |-> "response", ok |-> FALSE, json_ok |-> TRUE, payload |-> ForecastPayload(today, 0, "plain")]}
    \cup {[kind |-> "response", ok |-> TRUE, json_ok |-> FALSE, payload |-> ForecastPayload(today, 0, "plain")]}
    \cup [kind : {"response"}, ok : {TRUE}, json_ok : {TRUE}, payload : ForecastPayloads(today)]

\* the archive payload for the days first..last of the target month, in one of its shapes
ArchivePayload(year, month, last, shape) ==
    LET n == IF shape = "empty" THEN 0 ELSE last
        dates == CASE shape = "other_month" -> [i \in 1..n |-> <<year, (month % 12) + 1, i>>]
                   [] shape = "other_year" -> [i \in 1..n |-> <<year - 1, month, i>>]
                   [] OTHER -> [i \in 1..n |-> <<year, month, i>>]
        time == CASE shape = "bad_date_last" -> Append(dates, BadDate)
                  [] shape = "bad_date_first" /\ n > 0 -> [dates EXCEPT ![1] = BadDate]
                  [] OTHER -> dates
        max == [i \in 1..n |-> IF shape = "null_high" /\ i = n THEN JNull ELSE JNum(600 + i)]
        min == [i \in 1..n |-> JNum(200 + i)]
    IN [time |-> time,
        has_max |-> shape # "no_max_key",
        max |-> IF shape = "short_max" /\ n > 0 THEN SubSeq(max, 1, n - 1) ELSE max,
        has_min |-> shape # "no_min_key",
        min |-> IF shape = "short_min" /\ n > 0 THEN SubSeq(min, 1, n - 1) ELSE min]

ArchiveShapes ==
    {"plain", "empty", "other_month", "other_year", "bad_date_last", "bad_date_first",
     "null_high", "no_max_key", "no_min_key", "short_max", "short_min"}

ArchiveResponses(year, month, last) ==
    {[kind |-> "exception", ok |-> FALSE, json_ok |-> FALSE, payload |-> ArchivePayload(year, month, last, "empty")]}
    \cup {[kind |-> "response", ok |-> FALSE, json_ok |-> TRUE, payload |-> ArchivePayload(year, month, last, "empty")]}
    \cup {[kind |-> "response", ok |-> TRUE, json_ok |-> FALSE, payload |-> ArchivePayload(year, month, last, "empty")]}
    \cup {[kind |-> "response", ok |-> TRUE, json_ok |-> TRUE, payload |-> ArchivePayload(year, month, last, shape)] : shape \in ArchiveShapes}

NoResponse == [kind |-> "none", ok |-> FALSE, json_ok |-> FALSE, payload |-> ForecastPayload(<<2026, 1, 1>>, 0, "plain")]

(***************************************************************************)
(* fetch_weather_async as a state machine.  fetch[r] is the invocation r:  *)
(*   pc            "start", "await_forecast", "await_archive", "returned", *)
(*                 "raised"                                                *)
(*   today, month, year                                                    *)
(*   days_in_month, forecast_map     the locals of those names             *)
(*   sent          the requests issued through session.get, in order       *)
(*   forecast_resp, archive_resp     the responses received                *)
(*   logged        the warnings written by line 212                        *)
(*   result, exc   the list returned, the exception raised                 *)
(***************************************************************************)
FetchCall(today, target) ==
    [pc |-> "start", today |-> today, month |-> target[2], year |-> target[1],
     days_in_month |-> 0, forecast_map |-> EmptyMap, sent |-> <<>>,
     forecast_resp |-> NoResponse, archive_resp |-> NoResponse,
     logged |-> 0, result |-> <<>>, exc |-> "none"]

InitFetch ==
    /\ call = [fn |-> "fetch_weather_async"]
    /\ pc = "called"
    /\ frame = NoValue
    /\ ret = NoValue
    /\ now = 0
    /\ history = <<>>
    /\ \E today \in Todays : \E target \in Targets(today) :
          fetch = <<FetchCall(today, target)>>

\* lines 133-149: the month length is computed and the forecast is requested
StartFetch(r) ==
    /\ fetch[r].pc = "start"
    /\ fetch' = [fetch EXCEPT ![r].pc = "await_forecast",
                              ![r].days_in_month = days_in_month_of(fetch[r].year, fetch[r].month),
                              ![r].sent = Append(fetch[r].sent, [url |-> "forecast", start_day |-> 0, end_day |-> 0])]
    /\ UNCHANGED <<call, pc, frame, ret, now, history>>

\* lines 149-152 inside a try block like that of line 195: nothing is raised
forecast_fetch_exc_swallowed(resp) == "none"

\* what lines 149-152 raise on the response
forecast_fetch_exc(resp) ==
    IF resp.kind = "exception" THEN "ClientError"
    ELSE IF forecast_status_check(resp.ok) # "none" THEN forecast_status_check(resp.ok)
    ELSE IF ~resp.json_ok THEN "JSONError"
    ELSE "none"

\* lines 149-197: the forecast response arrives; it is read, and either the
\* archive is requested or (lines 215-234) the month is built and returned
ForecastResponse(r) ==
    /\ fetch[r].pc = "await_forecast"
    /\ \E resp \in ForecastResponses(fetch[r].today) :
        LET f == fetch[r]
            fetch_exc == forecast_fetch_exc(resp)
            parsed == parse_forecast(resp.payload, f.month, f.year)
        IN IF fetch_exc # "none"
           THEN fetch' = [fetch EXCEPT ![r].pc = "raised", ![r].exc = fetch_exc,
                                       ![r].forecast_resp = resp]
           ELSE IF parsed.exc # "none"
           THEN fetch' = [fetch EXCEPT ![r].pc = "raised", ![r].exc = parsed.exc,
                                       ![r].forecast_resp = resp]
           ELSE IF archive_wanted(f.today, f.month, f.year)
           THEN fetch' = [fetch EXCEPT ![r].pc = "await_archive",
                                       ![r].forecast_resp = resp,
                                       ![r].forecast_map = parsed.map,
                                       ![r].sent = Append(f.sent, [url |-> "archive", start_day |-> 1, end_day |-> f.today[3] - 1])]
           ELSE fetch' = [fetch EXCEPT ![r].pc = "returned",
                                       ![r].forecast_resp = resp,
                                       ![r].forecast_map = parsed.map,
                                       ![r].result = build_month(parsed.map, f.days_in_month)]
    /\ UNCHANGED <<call, pc, frame, ret, now, history>>

\* lines 196-210: [exc, map] of the archive block on the response
archive_block(resp, target_month, forecast_map) ==
    IF resp.kind = "exception" THEN [exc |-> "ClientError", map |-> forecast_map]
    ELSE IF ~resp.ok THEN [exc |-> "none", map |-> forecast_map]
    ELSE IF ~resp.json_ok THEN [exc |-> "JSONError", map |-> forecast_map]
    ELSE merge_archive(resp.payload, target_month, forecast_map)

\* line 171 with forecast_map a module-level dict that every invocation shares
day_map_shared(r) == fetch[1].forecast_map

\* line 171: forecast_map is a local of the invocation r
day_map_of(r) == fetch[r].forecast_map

\* lines 196-234: the archive response arrives; it is merged, what it raises is
\* caught and logged, and the month is built and returned
ArchiveResponse(r) ==
    /\ fetch[r].pc = "await_archive"
    /\ \E resp \in ArchiveResponses(fetch[r].year, fetch[r].month, fetch[r].today[3] - 1) :
        LET f == fetch[r]
            got == archive_block(resp, f.month, day_map_of(r))
        IN IF got.exc # "none" /\ ~caught_by_except(got.exc)
           THEN fetch' = [fetch EXCEPT ![r].pc = "raised", ![r].exc = got.exc,
                                       ![r].archive_resp = resp,
                                       ![r].forecast_map = got.map]
           ELSE fetch' = [fetch EXCEPT ![r].pc = "returned",
                                       ![r].archive_resp = resp,
                                       ![r].forecast_map = got.map,
                                       ![r].logged = f.logged + (IF got.exc # "none" THEN 1 ELSE 0),
                                       ![r].result = build_month(got.map, f.days_in_month)]
    /\ UNCHANGED <<call, pc, frame, ret, now, history>>

Start == \E r \in DOMAIN fetch : StartFetch(r)

ForecastArrives == \E r \in DOMAIN fetch : ForecastResponse(r)

ArchiveArrives == \E r \in DOMAIN fetch : ArchiveResponse(r)

NextFetch ==
    \/ Start
    \/ ForecastArrives
    \/ ArchiveArrives

SpecFetch == InitFetch /\ [][NextFetch]_vars

(***************************************************************************)
(* Two requests in flight on the same event loop: each is suspended at the *)
(* awaits of lines 149-152 and 196-198, where the other may run.           *)
(***************************************************************************)
PairToday == <<2024, 2, 3>>

\* the current month and the next one
PairTargets == {<<2024, 2>>, <<2024, 3>>}

InitFetchPair ==
    /\ call = [fn |-> "fetch_weather_async"]
    /\ pc = "called"
    /\ frame = NoValue
    /\ ret = NoValue
    /\ now = 0
    /\ history = <<>>
    /\ \E t1 \in PairTargets : \E t2 \in PairTargets :
          /\ t1 # t2
          /\ fetch = <<FetchCall(PairToday, t1), FetchCall(PairToday, t2)>>

SpecFetchPair == InitFetchPair /\ [][NextFetch]_vars

(***************************************************************************)
(* Properties of fetch_weather_async.                                      *)
(***************************************************************************)
\* the day map the forecast response alone gives
ForecastSupplied(f) == parse_forecast(f.forecast_resp.payload, f.month, f.year).map

\* reading entry i of the archive payload raises
ArchiveRaisesAt(archive, month, i) ==
    \/ ~ValidDate(archive.time[i])
    \/ /\ archive.time[i][2] = month
       /\ (~archive.has_max \/ i > Len(archive.max) \/ ~archive.has_min \/ i > Len(archive.min))

\* entry i of the archive payload supplies a day of the month: high and low, not null
ArchiveSuppliesAt(archive, month, i) ==
    /\ ~ArchiveRaisesAt(archive, month, i)
    /\ archive.time[i][2] = month
    /\ ~archive.max[i].null
    /\ ~archive.min[i].null

\* the archive fetch of the invocation failed: the request raised, the response
\* was not OK, or reading its payload raised
ArchiveFailed(f) ==
    \/ f.archive_resp.kind = "exception"
    \/ /\ f.archive_resp.kind = "response"
       /\ \/ ~f.archive_resp.ok
          \/ ~f.archive_resp.json_ok
          \/ \E i \in 1..Len(f.archive_resp.payload.time) :
                ArchiveRaisesAt(f.archive_resp.payload, f.month, i)

\* the entries of the archive payload that were read and supplied a day before
\* the fetch failed (none when there is no payload to read)
ArchiveEntriesRead(f) ==
    LET a == f.archive_resp.payload
    IN IF f.archive_resp.kind # "response" \/ ~f.archive_resp.ok \/ ~f.archive_resp.json_ok
       THEN {}
       ELSE {i \in 1..Len(a.time) :
                /\ ArchiveSuppliesAt(a, f.month, i)
                /\ \A j \in 1..i : ~ArchiveRaisesAt(a, f.month, j)}

\* the days of the month the archive payload supplies anywhere
ArchiveDays(f) ==
    LET a == f.archive_resp.payload
    IN IF f.archive_resp.kind # "response" \/ ~f.archive_resp.ok \/ ~f.archive_resp.json_ok
       THEN {}
       ELSE {a.time[i][3] : i \in {j \in 1..Len(a.time) : ArchiveSuppliesAt(a, f.month, j)}}

\* the entry of the returned list for a day taken from a day map entry
SameValues(entry, day, source) ==
    entry = [day |-> day, high |-> source.high, low |-> source.low, avg |-> source.avg, humidity |-> source.humidity]

\* C4: a failed forecast fetch (the request raises, or the response is not OK)
\* is fatal: the invocation raises and returns no weather series.
C4_ForecastFailureFatal ==
    \A r \in DOMAIN fetch :
        LET f == fetch[r]
        IN (f.forecast_resp.kind = "exception" \/ (f.forecast_resp.kind = "response" /\ ~f.forecast_resp.ok))
            => /\ f.pc = "raised"
               /\ f.exc \in {"ClientError", "RuntimeError"}
               /\ f.result = <<>>

\* C4 witness: a forecast response that is not OK ended the invocation with
\* the RuntimeError of line 151
C4_Witness ==
    \E r \in DOMAIN fetch :
        /\ fetch[r].forecast_resp.kind = "response"
        /\ ~fetch[r].forecast_resp.ok
        /\ fetch[r].pc = "raised"
        /\ fetch[r].exc = "RuntimeError"

\* C5 as stated: after a successful forecast fetch, a failed archive fetch is
\* not raised, and the month returned is complete, every day the forecast
\* supplied keeps its forecast values, and every day neither the archive nor
\* the forecast supplied holds the fallback values.
C5_ArchiveFailureKeepsForecast ==
    \A r \in DOMAIN fetch :
        LET f == fetch[r]
        IN ArchiveFailed(f)
            => /\ f.pc = "returned"
               /\ Len(f.result) = f.days_in_month
               /\ \A d \in 1..Len(f.result) :
                    /\ d \in DOMAIN ForecastSupplied(f)
                        => SameValues(f.result[d], d, ForecastSupplied(f)[d])
                    /\ (d \notin DOMAIN ForecastSupplied(f) /\ d \notin ArchiveDays(f))
                        => f.result[d] = fallback_day(d)

\* C5 as amended: after a successful forecast fetch, a failed archive fetch is
\* not raised, and the month returned is complete: every day an archive entry
\* read before the failure supplied holds the archive's high and low with
\* humidity 60, every other day the forecast supplied keeps its forecast
\* values, and every remaining day holds the fallback values.
C5_ArchiveFailureNotRaised ==
    \A r \in DOMAIN fetch :
        LET f == fetch[r]
            a == f.archive_resp.payload
            read == ArchiveEntriesRead(f)
        IN ArchiveFailed(f)
            => /\ f.pc = "returned"
               /\ f.exc = "none"
               /\ Len(f.result) = f.days_in_month
               /\ \A d \in 1..Len(f.result) :
                    IF \E i \in read : a.time[i][3] = d
                    THEN LET last == CHOOSE i \in read :
                                        /\ a.time[i][3] = d
                                        /\ \A j \in read : a.time[j][3] = d => j <= i
                         IN /\ f.result[d].day = d
                            /\ f.result[d].high = a.max[last].v
                            /\ f.result[d].low = a.min[last].v
                            /\ f.result[d].humidity = 60
                    ELSE IF d \in DOMAIN ForecastSupplied(f)
                    THEN SameValues(f.result[d], d, ForecastSupplied(f)[d])
                    ELSE f.result[d] = fallback_day(d)

\* C5 witness: reading the archive payload raised after an entry had been
\* merged, and the month returned holds a forecast day and a fallback day too
C5_Witness ==
    \E r \in DOMAIN fetch :
        LET f == fetch[r]
        IN /\ ArchiveFailed(f)
           /\ f.pc = "returned"
           /\ f.logged = 1
           /\ ArchiveEntriesRead(f) # {}
           /\ \E d \in DOMAIN ForecastSupplied(f) : SameValues(f.result[d], d, ForecastSupplied(f)[d])
           /\ \E d \in 1..Len(f.result) : f.result[d] = fallback_day(d)

\* C6: whenever fetch_weather_async returns, the list has one entry per
\* calendar day of the target month (28, 29, 30 or 31, leap years included)
\* and its i-th entry is day i.
C6_OneEntryPerDay ==
    \A r \in DOMAIN fetch :
        fetch[r].pc = "returned"
            => /\ Len(fetch[r].result) = MonthLen(fetch[r].year, fetch[r].month)
               /\ \A i \in 1..Len(fetch[r].result) : fetch[r].result[i].day = i

\* C6 witness: the 29 days of a leap February, one of them from the forecast
C6_Witness ==
    \E r \in DOMAIN fetch :
        /\ fetch[r].pc = "returned"
        /\ fetch[r].month = 2
        /\ IsLeap(fetch[r].year)
        /\ Len(fetch[r].result) = 29
        /\ DOMAIN fetch[r].forecast_map # {}

(***************************************************************************)
(* Properties of the engine.                                               *)
(***************************************************************************)
IsCall(fn) == call.fn = fn

\* the locals of the evaluations of compute_hourly_performance the state holds:
\* the invocation that has returned, or the last one made by the hour loop
HourlyFrames ==
    IF IsCall("compute_hourly_performance") /\ pc = "returned" THEN {frame}
    ELSE IF IsCall("compute_monthly_forecast") /\ pc \in {"loop", "returned"}
            /\ (frame.day > 1 \/ frame.hour > 0)
    THEN {frame.hourly}
    ELSE {}

\* C1: whenever the building load of an hour is > 0, the heat delivered by the
\* heat pump plus the deficit handed to auxiliary heat equals the building load,
\* with available capacity > 0 as well as with none.
C1_EnergyConservation ==
    \A h \in HourlyFrames :
        h.building_loss_btu_hr > 0
            => h.delivered_hp_btu_hr + h.deficit_btu_hr = h.building_loss_btu_hr

\* C1 witness: an hour whose load exceeds a positive available capacity, so that
\* both the heat pump and the auxiliary heat carry part of it
C1_Witness ==
    /\ IsCall("compute_hourly_performance")
    /\ pc = "returned"
    /\ frame.available_capacity_btu_hr > 0
    /\ frame.delivered_hp_btu_hr > 0
    /\ frame.deficit_btu_hr > 0

\* neither aux flag of the settings is truthy and at least one is set to False
AuxDisabled(settings) ==
    /\ ~Truthy(settings["useElectricAuxHeat"])
    /\ ~Truthy(settings["use_electric_aux_heat"])
    /\ PyBool(FALSE) \in {settings["useElectricAuxHeat"], settings["use_electric_aux_heat"]}

\* C2: with aux heat disabled in the settings, no hour's auxiliary kWh is
\* accumulated and the forecast returned has auxEnergyKwh = 0.
C2_AuxDisabledNoAuxEnergy ==
    (IsCall("compute_monthly_forecast") /\ AuxDisabled(call.settings))
        => /\ pc = "loop" => (frame.day_aux = 0 /\ frame.total_aux = 0)
           /\ pc = "returned" => ret.auxEnergyKwh = 0

\* C3: compute_monthly_forecast never raises because of a settings value: a
\* numeric setting that is missing, None or of the wrong type is replaced by its
\* default and a ForecastResult is returned.
C3_SettingsNeverRaise ==
    IsCall("compute_monthly_forecast") => pc # "raised"

\* C7: when weather is unavailable for the whole month (the series is empty, or
\* it is the month no source supplied a day of), the forecast computation
\* raises instead of returning a ForecastResult.
C7_NoWeatherRaises ==
    (/\ IsCall("compute_monthly_forecast")
     /\ (call.weather_days = <<>> \/ call.weather_days \in FallbackMonths))
        => pc # "returned"

\* C8: compute_hourly_performance divides by nothing that is zero, uses an
\* effective COP >= 0.5 and a capacity factor in [0, 1], and returns hpKwh >= 0
\* and auxKwh >= 0; the energies of every ForecastResult are >= 0.
C8_NoNegativeEnergy ==
    /\ total_hours # 0
    /\ base_seasonal_cop # 0
    /\ \A h \in HourlyFrames :
        /\ h.defrost \div 10000 # 0
        /\ h.effective_cop >= 500
        /\ h.capacity_factor >= 0
        /\ h.capacity_factor <= 10000
        /\ h.hp_kwh >= 0
        /\ h.aux_kwh >= 0
    /\ (IsCall("compute_monthly_forecast") /\ pc = "returned")
        => /\ ret.totalEnergyKwh >= 0
           /\ ret.hpEnergyKwh >= 0
           /\ ret.auxEnergyKwh >= 0

\* C8 witness: an hour below the cutoff with zero humidity and a COP that the
\* 0.5 floor lifted, the whole load on auxiliary heat
C8_Witness ==
    /\ IsCall("compute_hourly_performance")
    /\ pc = "returned"
    /\ call.humidity = 0
    /\ call.outdoor_temp < DEFAULT_CUTOFF
    /\ frame.capacity_factor = 0
    /\ frame.cop < 500
    /\ frame.effective_cop = 500
    /\ frame.aux_kwh > 0

\* C9: over the hours 0..23 of a day with high > low, get_hourly_temp is
\* lowest at hour 6 and highest at hour 14.
C9_MinAt6MaxAt14 ==
    (IsCall("get_hourly_temp") /\ pc = "returned" /\ call.high > call.low)
        => /\ get_hourly_temp(call.low, call.high, call.avg, 6) <= ret
           /\ ret <= get_hourly_temp(call.low, call.high, call.avg, 14)

\* C10: get_capacity_factor (default cutoff) and get_base_cop_unscaled have no
\* jump at 17 F and 47 F: the value at the breakpoint is the limit of the branch
\* that applies just below it.
C10_ContinuousAtBreakpoints ==
    /\ (IsCall("get_capacity_factor") /\ pc = "returned" /\ call.cutoff_temp = DEFAULT_CUTOFF)
        => /\ call.temp_out = 170 => ret = capacity_branch_low(170)
           /\ call.temp_out = 470 => ret = capacity_branch_mid(470)
    /\ (IsCall("get_base_cop_unscaled") /\ pc = "returned")
        => /\ call.temp_out = 170 => ret = cop_branch_low(170)
           /\ call.temp_out = 470 => ret = cop_branch_mid(470)

\* C11: get_defrost_penalty returns a value in [1.0, 2.0] for every outdoor
\* temperature and every humidity, humidities below 0 and above 100 included;
\* so does every evaluation of it inside compute_hourly_performance.
C11_DefrostPenaltyInRange ==
    /\ (IsCall("get_defrost_penalty") /\ pc = "returned")
        => (100000000 <= ret /\ ret <= 200000000)
    /\ \A h \in HourlyFrames : 100000000 <= h.defrost /\ h.defrost <= 200000000

\* C11 witness: a humidity above 100 whose penalty the upper clamp cut to 2.0
C11_Witness ==
    /\ IsCall("get_defrost_penalty")
    /\ pc = "returned"
    /\ call.humidity > 100
    /\ 100000000 + defrost_base_penalty(call.outdoor_temp, call.humidity) * call.humidity * defrost_temp_mult(call.outdoor_temp) > 200000000
    /\ ret = 200000000

\* C12: get_capacity_factor(t, cutoffTemp) is 0 for every cutoffTemp and every
\* t <= cutoffTemp, a cutoff at or above 47 F included.
C12_ZeroAtOrBelowCutoff ==
    (IsCall("get_capacity_factor") /\ pc = "returned" /\ call.temp_out <= call.cutoff_temp)
        => ret = 0

\* C12 witness: a temperature at the cutoff and above 47 F, where the cutoff
\* test comes before the full-capacity test
C12_Witness ==
    /\ IsCall("get_capacity_factor")
    /\ pc = "returned"
    /\ call.temp_out = call.cutoff_temp
    /\ call.temp_out >= 470
    /\ ret = 0

\* C13 as stated: for every t >= 47 F, whatever the cutoff, get_capacity_factor
\* returns 1.0 and get_base_cop_unscaled returns 4.8.
C13_PlateauWhateverCutoff ==
    /\ (IsCall("get_capacity_factor") /\ pc = "returned" /\ call.temp_out >= 470)
        => ret = 10000
    /\ (IsCall("get_base_cop_unscaled") /\ pc = "returned" /\ call.temp_out >= 470)
        => ret = 480000

\* C13 as amended: for every t >= 47 F, get_capacity_factor returns 1.0 when
\* t is above the cutoff and 0 when t is at or below it, and
\* get_base_cop_unscaled returns 4.8.
C13_PlateauAboveCutoff ==
    /\ (IsCall("get_capacity_factor") /\ pc = "returned" /\ call.temp_out >= 470)
        => ret = (IF call.temp_out > call.cutoff_temp THEN 10000 ELSE 0)
    /\ (IsCall("get_base_cop_unscaled") /\ pc = "returned" /\ call.temp_out >= 470)
        => ret = 480000

\* C13 witness: the base COP above 47 F, where the line of the 17..47 F branch
\* would pass 4.8
C13_Witness ==
    /\ IsCall("get_base_cop_unscaled")
    /\ pc = "returned"
    /\ call.temp_out > 470
    /\ cop_branch_mid(call.temp_out) > 480000
    /\ ret = 480000

\* C14: in every hour at or below the cutoff (-15 F by default) with a
\* building load > 0, compute_hourly_performance returns hpKwh = 0 and
\* auxKwh = buildingLoss * dtHours / 3412.14: auxiliary heat covers the load.
C14_BelowCutoffAllAux ==
    \A h \in HourlyFrames :
        (h.outdoor_temp <= h.cutoff_temp /\ h.cutoff_temp = DEFAULT_CUTOFF /\ h.building_loss_btu_hr > 0)
            => /\ h.hp_kwh = 0
               /\ h.aux_kwh = (h.building_loss_btu_hr * h.dt_hours * 1000) \div BTU_PER_KWH

\* C14 witness: an hour at the cutoff itself, a heat pump of positive size, a
\* positive load and a positive time step
C14_Witness ==
    /\ IsCall("compute_hourly_performance")
    /\ pc = "returned"
    /\ call.outdoor_temp = DEFAULT_CUTOFF
    /\ call.tons > 0
    /\ call.dt_hours > 0
    /\ frame.building_loss_btu_hr > 0
    /\ ret[1] = 0
    /\ ret[2] > 0

\* the override flag stored under either of its keys is truthy
FlagSet(settings, k1, k2) == Truthy(settings[k1]) \/ Truthy(settings[k2])

\* C15: the design heat loss compute_monthly_forecast uses is manualHeatLoss*70
\* when the manual flag is set and manualHeatLoss > 0; otherwise
\* analyzerHeatLoss*70 when the analyzer flag is set and analyzerHeatLoss > 0;
\* otherwise calculate_heat_loss of the building description.
C15_HeatLossPriority ==
    (IsCall("compute_monthly_forecast") /\ pc \in {"loop", "returned"})
        => LET st == call.settings
               manual_hl == numeric_setting(st, 10).val
               analyzer_hl == numeric_setting(st, 11).val
               has_loft == Truthy(st["hasLoft"]) \/ Truthy(st["has_loft"])
               estimate == calculate_heat_loss(numeric_setting(st, 1).val, numeric_setting(st, 2).val,
                                               numeric_setting(st, 3).val, numeric_setting(st, 4).val, has_loft)
           IN frame.s.design_heat_loss =
                IF FlagSet(st, "useManualHeatLoss", "use_manual_heat_loss") /\ manual_hl > 0
                THEN manual_hl * 70
                ELSE IF FlagSet(st, "useAnalyzerHeatLoss", "use_analyzer_heat_loss") /\ analyzer_hl > 0
                THEN analyzer_hl * 70
                ELSE estimate

\* C15 witness: both flags set and both values > 0, and the manual value used
C15_Witness ==
    /\ IsCall("compute_monthly_forecast")
    /\ pc = "returned"
    /\ FlagSet(call.settings, "useManualHeatLoss", "use_manual_heat_loss")
    /\ FlagSet(call.settings, "useAnalyzerHeatLoss", "use_analyzer_heat_loss")
    /\ numeric_setting(call.settings, 10).val > 0
    /\ numeric_setting(call.settings, 11).val > 0
    /\ numeric_setting(call.settings, 10).val # numeric_setting(call.settings, 11).val
    /\ frame.s.design_heat_loss = numeric_setting(call.settings, 10).val * 70

\* C16 as stated: with the other arguments fixed, whatever they are, a larger
\* square_feet or a larger insulation_level never gives a smaller
\* calculate_heat_loss.
C16_MonotoneWhateverOthers ==
    (IsCall("calculate_heat_loss") /\ pc = "returned")
        => /\ \A sq \in HeatLossSquareFeet :
                sq >= call.square_feet
                    => calculate_heat_loss(sq, call.insulation_level, call.home_shape, call.ceiling_height, call.has_loft) >= ret
           /\ \A ins \in HeatLossInsulation :
                ins >= call.insulation_level
                    => calculate_heat_loss(call.square_feet, ins, call.home_shape, call.ceiling_height, call.has_loft) >= ret

\* C16 as amended: a larger square_feet never gives a smaller result when
\* insulation_level >= 0, home_shape >= 0 and ceiling_height >= -2 ft; a larger
\* insulation_level never gives a smaller result when square_feet >= 0,
\* home_shape >= 0 and ceiling_height >= -2 ft.
C16_MonotoneNonNegativeFactors ==
    (IsCall("calculate_heat_loss") /\ pc = "returned" /\ call.home_shape >= 0 /\ call.ceiling_height >= -20)
        => /\ call.insulation_level >= 0
                => \A sq \in HeatLossSquareFeet :
                     sq >= call.square_feet
                        => calculate_heat_loss(sq, call.insulation_level, call.home_shape, call.ceiling_height, call.has_loft) >= ret
           /\ call.square_feet >= 0
                => \A ins \in HeatLossInsulation :
                     ins >= call.insulation_level
                        => calculate_heat_loss(call.square_feet, ins, call.home_shape, call.ceiling_height, call.has_loft) >= ret

\* C16 witness: a house with a loft and a high ceiling whose heat loss grows
\* with a larger square_feet and with a larger insulation_level
C16_Witness ==
    /\ IsCall("calculate_heat_loss")
    /\ pc = "returned"
    /\ call.has_loft
    /\ call.home_shape = 125
    /\ call.ceiling_height > 180
    /\ call.insulation_level > 0
    /\ call.square_feet > 0
    /\ \E sq \in HeatLossSquareFeet :
          calculate_heat_loss(sq, call.insulation_level, call.home_shape, call.ceiling_height, call.has_loft) > ret
    /\ \E ins \in HeatLossInsulation :
          calculate_heat_loss(call.square_feet, ins, call.home_shape, call.ceiling_height, call.has_loft) > ret

\* C17: in the list fetch_weather_async returns, every day of the month that
\* neither the forecast response nor the archive response supplied is exactly
\* {high 50, low 40, avg 45, humidity 60}; and a day without data never makes
\* the invocation raise (the TypeError of line 179 on a null high or low).
C17_AbsentDayFallback ==
    \A r \in DOMAIN fetch :
        LET f == fetch[r]
        IN /\ f.pc = "returned"
                => \A d \in 1..f.days_in_month :
                     (d \notin DOMAIN ForecastSupplied(f) /\ d \notin ArchiveDays(f))
                        => f.result[d] = fallback_day(d)
           /\ f.pc = "raised" => f.exc # "TypeError"

\* |a|
Abs(a) == IF a >= 0 THEN a ELSE -a

\* C18: in every result compute_monthly_forecast returns, the reported
\* totalEnergyKwh differs from hpEnergyKwh + auxEnergyKwh by at most 0.1 kWh.
\* The three fields are compared as the decimal numbers they are rounded to,
\* in tenths of a kWh.
C18_EnergyFieldsAddUp ==
    (IsCall("compute_monthly_forecast") /\ pc = "returned")
        => Abs(ret.totalEnergyKwh - (ret.hpEnergyKwh + ret.auxEnergyKwh)) <= 1

\* C18 witness: a month with heat-pump and auxiliary energy whose three fields,
\* each rounded on its own, are 0.1 kWh apart
C18_Witness ==
    /\ IsCall("compute_monthly_forecast")
    /\ pc = "returned"
    /\ ret.hpEnergyKwh > 0
    /\ ret.auxEnergyKwh > 0
    /\ Abs(ret.totalEnergyKwh - (ret.hpEnergyKwh + ret.auxEnergyKwh)) = 1

\* C19: in every result, totalHPCost and totalHPCostWithAux are within one
\* cent of round(totalMonthlyCost / 4.33, 2) taken from the reported
\* totalMonthlyCost.
C19_WeeklyEquivalent ==
    (IsCall("compute_monthly_forecast") /\ pc = "returned")
        => /\ Abs(ret.totalHPCost - py_round(ret.totalMonthlyCost * 100, 433)) <= 1
           /\ Abs(ret.totalHPCostWithAux - py_round(ret.totalMonthlyCost * 100, 433)) <= 1

\* C19 witness: a month with a cost of more than a dollar whose weekly
\* equivalent is a cent away from the one taken from the reported total
C19_Witness ==
    /\ IsCall("compute_monthly_forecast")
    /\ pc = "returned"
    /\ ret.totalMonthlyCost > 100
    /\ Abs(ret.totalHPCost - py_round(ret.totalMonthlyCost * 100, 433)) = 1

\* the invocations of compute_monthly_forecast that have completed
Completed ==
    {history[i] : i \in 1..Len(history)}
    \cup (IF IsCall("compute_monthly_forecast") /\ pc \in {"returned", "raised"}
          THEN {[call |-> call, outcome |-> pc, ret |-> ret]}
          ELSE {})

\* a result with its timestamp field set aside
WithoutTimestamp(result) == [k \in DOMAIN result \ {"timestamp"} |-> result[k]]

\* C20 as stated: two invocations of compute_monthly_forecast with equal
\* (weather_days, settings, month, year) have equal outcomes, whatever
\* invocations happen before or between them.
C20_EqualInputsEqualResults ==
    \A a \in Completed : \A b \in Completed :
        a.call = b.call => (a.outcome = b.outcome /\ a.ret = b.ret)

\* C20 as amended: two invocations with equal inputs raise the same exception
\* or return results equal in every field but timestamp, whatever invocations
\* happen before or between them; timestamp is a reading of the system clock
\* taken during the invocation.
C20_EqualInputsEqualButTimestamp ==
    /\ \A a \in Completed : \A b \in Completed :
          a.call = b.call
            => /\ a.outcome = b.outcome
               /\ a.outcome = "raised" => a.ret = b.ret
               /\ a.outcome = "returned" => WithoutTimestamp(a.ret) = WithoutTimestamp(b.ret)
    /\ \A a \in Completed : a.outcome = "returned" => a.ret.timestamp \in 0..now

\* C20 witness: an invocation, another with other settings, and the first one
\* again at a later clock reading: the same result but for the timestamp
C20_Witness ==
    /\ Len(history) = 2
    /\ pc = "returned"
    /\ history[1].call = call
    /\ history[2].call # call
    /\ history[1].outcome = "returned"
    /\ history[2].outcome = "returned"
    /\ history[1].ret.timestamp < ret.timestamp
    /\ WithoutTimestamp(history[1].ret) = WithoutTimestamp(ret)
    /\ ret.totalEnergyKwh > 0

\* what the invocation returns or raises when it runs alone, from its own
\* inputs: the date, the target month and the two responses it received
RunAlone(f) ==
    LET fetch_exc == forecast_fetch_exc(f.forecast_resp)
        parsed == parse_forecast(f.forecast_resp.payload, f.month, f.year)
        got == archive_block(f.archive_resp, f.month, parsed.map)
        days == days_in_month_of(f.year, f.month)
    IN IF fetch_exc # "none" THEN [exc |-> fetch_exc, result |-> <<>>]
       ELSE IF parsed.exc # "none" THEN [exc |-> parsed.exc, result |-> <<>>]
       ELSE IF ~archive_wanted(f.today, f.month, f.year)
       THEN [exc |-> "none", result |-> build_month(parsed.map, days)]
       ELSE IF got.exc # "none" /\ ~caught_by_except(got.exc)
       THEN [exc |-> got.exc, result |-> <<>>]
       ELSE [exc |-> "none", result |-> build_month(got.map, days)]

\* C21: of two requests interleaved at their awaits, each returns or raises
\* what it would alone, and while it waits for the archive its day map holds
\* the days of its own forecast response and no others.
C21_ConcurrentRequestsIndependent ==
    \A r \in DOMAIN fetch :
        LET f == fetch[r]
        IN /\ f.pc \in {"returned", "raised"}
                => (f.result = RunAlone(f).result /\ f.exc = RunAlone(f).exc)
           /\ f.pc = "await_archive" => f.forecast_map = ForecastSupplied(f)

\* C21 witness: the second request ran from start to return with archive days
\* merged while the first, holding forecast days of its own, was suspended
C21_Witness ==
    /\ Len(fetch) = 2
    /\ fetch[1].pc = "await_forecast"
    /\ fetch[2].pc = "returned"
    /\ fetch[2].archive_resp.kind = "response"
    /\ ArchiveEntriesRead(fetch[2]) # {}
    /\ DOMAIN ForecastSupplied(fetch[2]) # {}
    /\ fetch[2].result = RunAlone(fetch[2]).result

\* the requests of the invocation to the archive endpoint
ArchiveRequests(f) == {i \in 1..Len(f.sent) : f.sent[i].url = "archive"}

\* C22: the archive is requested only when the target month and year are
\* today's and today is after day 1, and then for day 1 through yesterday;
\* every day the returned list took from the archive has humidity 60 and
\* avg = (high + low) / 2.
C22_ArchiveOnlyPastDaysOfCurrentMonth ==
    \A r \in DOMAIN fetch :
        LET f == fetch[r]
            a == f.archive_resp.payload
        IN /\ \A i \in ArchiveRequests(f) :
                /\ f.month = f.today[2]
                /\ f.year = f.today[1]
                /\ f.today[3] > 1
                /\ f.sent[i].start_day = 1
                /\ f.sent[i].end_day = f.today[3] - 1
           /\ f.pc = "returned"
                => \A i \in ArchiveEntriesRead(f) :
                      LET e == f.result[a.time[i][3]]
                      IN /\ e.humidity = 60
                         /\ e.avg = (e.high + e.low) \div 2

\* C22 witness: on the 3rd of the month the archive was asked for days 1..2
\* and the list returned holds a day taken from it
C22_Witness ==
    \E r \in DOMAIN fetch :
        LET f == fetch[r]
        IN /\ f.pc = "returned"
           /\ f.today[3] = 3
           /\ \E i \in ArchiveRequests(f) : f.sent[i].start_day = 1 /\ f.sent[i].end_day = 2
           /\ \E i \in ArchiveEntriesRead(f) :
                 f.result[f.archive_resp.payload.time[i][3]].high = f.archive_resp.payload.max[i].v

RECURSIVE scaled_weighted_sum(_, _)
\* sum(get_cop_factor(t, hspf2) * h) over the first n bins of HSPF2_BIN_HOURS
scaled_weighted_sum(hspf2, n) ==
    IF n = 0 THEN 0
    ELSE get_cop_factor(HSPF2_BIN_HOURS[n][1] * 10, hspf2) * HSPF2_BIN_HOURS[n][2]
         + scaled_weighted_sum(hspf2, n - 1)

\* get_cop_factor(t, hspf2) / get_base_cop_unscaled(t), in 1/1000
ScaleAt(temp_out, hspf2) ==
    (get_cop_factor(temp_out, hspf2) * 100000) \div get_base_cop_unscaled(temp_out)

\* C23: for every hspf2, the hour-weighted average of get_cop_factor over the
\* 16 bins is hspf2 * 1000 / 3412.14, and get_cop_factor(t) /
\* get_base_cop_unscaled(t) is the same at every temperature; both up to the
\* rounding of the fixed-point quotients (0.005 on the average, 0.001 on the
\* ratio).
C23_Hspf2Calibration ==
    (IsCall("get_cop_factor") /\ pc = "returned")
        => /\ Abs(scaled_weighted_sum(call.hspf2, Len(HSPF2_BIN_HOURS)) \div total_hours
                  - target_seasonal_cop(call.hspf2)) <= 5
           /\ \A t \in TempGrid :
                Abs((ret * 100000) \div get_base_cop_unscaled(call.temp_out) - ScaleAt(t, call.hspf2)) <= 1

\* C23 witness: a rating other than the default 9.0, at a temperature below
\* 17 F where the base curve is on its low branch
C23_Witness ==
    /\ IsCall("get_cop_factor")
    /\ pc = "returned"
    /\ call.hspf2 = 75
    /\ call.temp_out < 170
    /\ ret > 0
    /\ ret < get_base_cop_unscaled(call.temp_out) \div 100

\* C24: compute_hourly_performance returns the same (hpKwh, auxKwh) for every
\* compressor_power, the other arguments fixed; so do the hourly evaluations
\* of compute_monthly_forecast, whose energy and cost fields are sums of them.
C24_CompressorPowerUnused ==
    /\ (IsCall("compute_hourly_performance") /\ pc = "returned")
        => \A cp \in CompressorPowers \cup {-10, 1000} :
              LET h == hourly_locals(call.tons, call.indoor_temp, call.design_heat_loss_btu, cp, call.hspf2, call.outdoor_temp, call.humidity, call.dt_hours, call.cutoff_temp)
              IN ret = <<h.hp_kwh, h.aux_kwh>>
    /\ (IsCall("compute_monthly_forecast") /\ pc \in {"loop", "returned"})
        => \A h \in HourlyFrames :
              \A cp \in {0, 1000} :
                 LET g == hourly_locals(frame.s.tons, frame.s.indoor_temp, frame.s.design_heat_loss, cp, frame.s.efficiency, h.outdoor_temp, call.weather_days[IF frame.hour = 0 THEN frame.day - 1 ELSE frame.day].humidity, 10, DEFAULT_CUTOFF)
                 IN h.hp_kwh = g.hp_kwh /\ h.aux_kwh = g.aux_kwh

\* C24 witness: an hour in which the heat pump draws more than the compressor
\* power passed (0.0 kW) would allow
C24_Witness ==
    /\ IsCall("compute_hourly_performance")
    /\ pc = "returned"
    /\ call.compressor_power = 0
    /\ call.dt_hours > 0
    /\ ret[1] > 0
    /\ ret[2] > 0

\* C25: compute_monthly_forecast always comes to its end; when it returns it
\* has made exactly 24 hourly evaluations for each WeatherDay, at most 744
\* for a series of at most 31 days; and from its first evaluation to its
\* last every step taken is a step of the loop itself.
C25_LoopTerminates ==
    /\ <>(pc \in {"returned", "raised"})
    /\ [](pc = "loop" => frame.evaluations = 24 * (frame.day - 1) + frame.hour)
    /\ [](pc = "returned"
            => /\ frame.evaluations = 24 * Len(call.weather_days)
               /\ Len(call.weather_days) <= 31 => frame.evaluations <= 744)
    /\ [][pc = "loop" => (SimulateHour \/ ReturnForecast)]_vars

\* C25 witness: a month of 31 days returned after 744 evaluations
C25_Witness ==
    /\ IsCall("compute_monthly_forecast")
    /\ pc = "returned"
    /\ Len(call.weather_days) = 31
    /\ frame.evaluations = 744

\* C26: in every invocation of fetch_weather_async the forecast request is the
\* first request, and the archive request, if there is one, is the second and
\* last: it is made after the forecast response has arrived, only when that
\* response was OK, and never when the forecast request failed.
C26_ForecastBeforeArchive ==
    \A r \in DOMAIN fetch :
        LET f == fetch[r]
        IN /\ Len(f.sent) <= 2
           /\ Len(f.sent) >= 1 => f.sent[1].url = "forecast"
           /\ Cardinality(ArchiveRequests(f)) <= 1
           /\ ArchiveRequests(f) # {}
                => /\ ArchiveRequests(f) = {2}
                   /\ f.forecast_resp.kind = "response"
                   /\ f.forecast_resp.ok
           /\ (f.forecast_resp.kind = "exception" \/ (f.forecast_resp.kind = "response" /\ ~f.forecast_resp.ok))
                => ArchiveRequests(f) = {}

\* C26 witness: the archive request made, second, with the OK forecast
\* response in hand and the archive response still awaited
C26_Witness ==
    \E r \in DOMAIN fetch :
        /\ fetch[r].pc = "await_archive"
        /\ Len(fetch[r].sent) = 2
        /\ fetch[r].sent[2].url = "archive"
        /\ fetch[r].forecast_resp.ok
        /\ fetch[r].archive_resp.kind = "none"

\* the archive response of the invocation came with a payload
ArchivePayloadRead(f) ==
    f.archive_resp.kind = "response" /\ f.archive_resp.ok /\ f.archive_resp.json_ok

\* the entries of the archive payload dated day d of the target month and year
ArchiveEntriesFor(f, d) ==
    {i \in 1..Len(f.archive_resp.payload.time) : f.archive_resp.payload.time[i] = <<f.year, f.month, d>>}

\* C27 as stated: for a day both responses supply, the returned entry holds
\* the archive's high and low with humidity 60; when the archive's high or low
\* for the day is null, the forecast entry is kept unchanged.
C27_ArchiveOverForecast ==
    \A r \in DOMAIN fetch :
        LET f == fetch[r]
            a == f.archive_resp.payload
        IN (f.pc = "returned" /\ ArchivePayloadRead(f))
            => \A d \in DOMAIN ForecastSupplied(f) :
                 LET entries == ArchiveEntriesFor(f, d)
                     inside == {i \in entries : a.has_max /\ a.has_min /\ i <= Len(a.max) /\ i <= Len(a.min)}
                     supplied == {i \in inside : ~a.max[i].null /\ ~a.min[i].null}
                 IN /\ supplied # {}
                        => \E i \in supplied :
                              /\ f.result[d].high = a.max[i].v
                              /\ f.result[d].low = a.min[i].v
                              /\ f.result[d].humidity = 60
                    /\ (entries # {} /\ inside = entries /\ supplied = {})
                        => SameValues(f.result[d], d, ForecastSupplied(f)[d])

\* C27 as amended: for a day the forecast supplies, the returned entry holds
\* the high and low of the last archive entry for that day of the month that
\* was read, before any failure of the archive fetch, with both not null, and
\* humidity 60; when there is no such entry (the archive's high or low is
\* null, or the archive fetch failed before the entry was read) the forecast
\* entry is kept unchanged.
C27_ArchiveReadOverForecast ==
    \A r \in DOMAIN fetch :
        LET f == fetch[r]
            a == f.archive_resp.payload
            read == ArchiveEntriesRead(f)
        IN f.pc = "returned"
            => \A d \in DOMAIN ForecastSupplied(f) :
                 LET of_day == {i \in read : a.time[i][3] = d}
                 IN IF of_day # {}
                    THEN LET last == CHOOSE i \in of_day : \A j \in of_day : j <= i
                         IN /\ f.result[d].high = a.max[last].v
                            /\ f.result[d].low = a.min[last].v
                            /\ f.result[d].avg = (a.max[last].v + a.min[last].v) \div 2
                            /\ f.result[d].humidity = 60
                    ELSE SameValues(f.result[d], d, ForecastSupplied(f)[d])

\* C27 witness: yesterday supplied by the forecast and by the archive, and the
\* returned entry holding the archive's high, not the forecast's
C27_Witness ==
    \E r \in DOMAIN fetch :
        LET f == fetch[r]
            a == f.archive_resp.payload
        IN /\ f.pc = "returned"
           /\ \E d \in DOMAIN ForecastSupplied(f) :
                \E i \in ArchiveEntriesRead(f) :
                   /\ a.time[i] = <<f.year, f.month, d>>
                   /\ a.max[i].v # ForecastSupplied(f)[d].high
                   /\ f.result[d].high = a.max[i].v
                   /\ f.result[d].humidity = 60

\* C28: fetch_weather_async raises only when the forecast request failed (it
\* raised, or its response was not OK); with an OK forecast response,
\* whatever its payload, the invocation does not raise, and when it has
\* returned the month is complete.
C28_RaisesOnlyOnForecastFailure ==
    \A r \in DOMAIN fetch :
        LET f == fetch[r]
        IN /\ f.pc = "raised"
                => (f.forecast_resp.kind = "exception" \/ ~f.forecast_resp.ok)
           /\ (f.pc = "returned" /\ f.forecast_resp.ok)
                => Len(f.result) = MonthLen(f.year, f.month)

\* C29: get_base_cop_unscaled and get_capacity_factor (default cutoff) never
\* decrease as the outdoor temperature rises: the value returned at a
\* temperature is at most the value at every higher temperature, across the
\* cutoff, 17 F and 47 F included.
C29_CurvesNonDecreasing ==
    /\ (IsCall("get_capacity_factor") /\ pc = "returned" /\ call.cutoff_temp = DEFAULT_CUTOFF)
        => \A t2 \in TempGrid :
               call.temp_out <= t2 => ret <= get_capacity_factor(t2, DEFAULT_CUTOFF)
    /\ (IsCall("get_base_cop_unscaled") /\ pc = "returned")
        => \A t2 \in TempGrid :
               call.temp_out <= t2 => ret <= get_base_cop_unscaled(t2)
    /\ (IsCall("get_base_cop_unscaled_fine") /\ pc = "returned")
        => \A t2 \in FineTempGrid :
               call.temp_out <= t2 => ret <= get_base_cop_unscaled_fine(t2)

\* the keys of the numeric settings of lines 247-275
NumericKeys == {NumericSettings[i][k] : i \in 1..Len(NumericSettings), k \in {1, 2}}

\* the settings with every numeric setting stored as 0 taken out
ZeroAsAbsent(settings) ==
    [k \in DOMAIN settings |->
        IF k \in NumericKeys /\ settings[k] = PyNum(0) THEN PyMissing ELSE settings[k]]

\* C30: in compute_monthly_forecast a numeric setting stored as 0 counts as a
\* missing one: the invocation raises the same exception, or returns the same
\* result but for timestamp, as it does on the settings without the keys that
\* hold 0; an electricity rate of 0 is billed at the default 0.10 $/kWh.
C30_ZeroIsMissing ==
    (IsCall("compute_monthly_forecast") /\ pc \in {"returned", "raised"})
        => LET absent == compute_monthly_forecast(call.weather_days, ZeroAsAbsent(call.settings), call.month, now)
           IN /\ pc = absent.outcome
              /\ pc = "raised" => ret = absent.ret
              /\ pc = "returned" => WithoutTimestamp(ret) = WithoutTimestamp(absent.ret)
              /\ (/\ pc = "returned"
                  /\ call.settings["utilityCost"] = PyNum(0)
                  /\ call.settings["utility_cost"] = PyMissing)
                    => ret.electricityRate = 100

\* C30 witness: a forecast returned for settings whose utilityCost is 0, billed
\* at 0.10 $/kWh with a positive HVAC cost
C30_Witness ==
    /\ IsCall("compute_monthly_forecast")
    /\ pc = "returned"
    /\ call.settings["utilityCost"] = PyNum(0)
    /\ ZeroAsAbsent(call.settings) # call.settings
    /\ ret.electricityRate = 100
    /\ ret.hvacCost > 0

=============================================================================
